---- MODULE Spec2Model ----
(***************************************************************************)
(* typeorm-query-utils: the condition compiler (parseCondition) and the    *)
(* boolean composer (applyWhereConditionsQB).                              *)
(*                                                                         *)
(* JavaScript values are tagged records.  A JavaScript string is a         *)
(* sequence of tokens (TLA+ strings); "$", "." and " " are always tokens   *)
(* of their own, so that replace(/\$/, ""), split("."), includes(".") and  *)
(* trim() act on the string as the code's calls do.  Template literals     *)
(* are concatenations of token sequences.                                  *)
(***************************************************************************)
EXTENDS Integers, Sequences, FiniteSets, TLC

VARIABLES
    call,      \* the last parseCondition call: its arguments
    result,    \* what that call returned or threw
    qb,        \* the WhereExpressionBuilder the composer writes to
    outcome,   \* how the last applyWhereConditionsQB call ended
    uuidCalls, \* how many ids uuid() has handed out
    ncalls     \* composer calls made on qb so far

vars == <<call, result, qb, outcome, uuidCalls, ncalls>>

----------------------------------------------------------------------------
(* Bounds *)

\* uuid() values the parseCondition specification draws from
MaxUuid == 2
\* applyWhereConditionsQB calls on one builder
MaxCalls == 2

----------------------------------------------------------------------------
(* JavaScript values *)

Undefined == [t |-> "undefined"]
Null == [t |-> "null"]
Str(s) == [t |-> "string", s |-> s]
Num(n) == [t |-> "number", n |-> n]
Bool(b) == [t |-> "boolean", b |-> b]
DateV(d) == [t |-> "date", d |-> d]
Arr(items) == [t |-> "array", items |-> items]
\* a plain object: its own enumerable entries <<key, value>>, in key order
Obj(entries) == [t |-> "object", entries |-> entries]

\* typeof v
TypeOf(v) ==
    CASE v.t = "undefined" -> "undefined"
      [] v.t = "string" -> "string"
      [] v.t = "number" -> "number"
      [] v.t = "boolean" -> "boolean"
      [] OTHER -> "object"

IsArray(v) == v.t = "array"
InstanceOfDate(v) == v.t = "date"

\* Object.keys(v) of a non-null value: a Date has no own enumerable keys
ObjectKeys(v) ==
    IF v.t = "object" THEN [i \in 1..Len(v.entries) |-> v.entries[i][1]] ELSE <<>>

\* `${v}` inside a template literal
Interp(v) ==
    CASE v.t = "string" -> v.s
      [] v.t = "undefined" -> <<"undefined">>
      [] v.t = "null" -> <<"null">>
      [] v.t = "number" -> <<ToString(v.n)>>
      [] v.t = "boolean" -> <<IF v.b THEN "true" ELSE "false">>
      [] OTHER -> <<"[object]">>

\* s.trim(): whitespace tokens removed at both ends
RECURSIVE TrimStart(_)
TrimStart(s) == IF s # <<>> /\ Head(s) = " " THEN TrimStart(Tail(s)) ELSE s

RECURSIVE TrimEnd(_)
TrimEnd(s) ==
    IF s # <<>> /\ s[Len(s)] = " " THEN TrimEnd(SubSeq(s, 1, Len(s) - 1)) ELSE s

Trim(s) == TrimEnd(TrimStart(s))

\* s.replace(/\$/, ""): the first "$" removed
RECURSIVE ReplaceDollar(_)
ReplaceDollar(s) ==
    IF s = <<>> THEN <<>>
    ELSE IF Head(s) = "$" THEN Tail(s)
    ELSE <<Head(s)>> \o ReplaceDollar(Tail(s))

\* s.replace(/-/g, '_'): every "-" replaced
ReplaceHyphens(s) == [i \in 1..Len(s) |-> IF s[i] = "-" THEN "_" ELSE s[i]]

\* the n-th value of uuid(): hex groups joined by hyphens
Uuid(n) == <<"9b1deb4d", "-", "3b7d", "-", ToString(n)>>

\* JSON.stringify(v)
RECURSIVE JsonStringify(_)
RECURSIVE JsonItems(_, _)
RECURSIVE JsonEntries(_, _)
JsonStringify(v) ==
    CASE v.t = "string" -> <<"\"">> \o v.s \o <<"\"">>
      [] v.t = "number" -> <<ToString(v.n)>>
      [] v.t = "boolean" -> <<IF v.b THEN "true" ELSE "false">>
      [] v.t = "date" -> <<"\"", "date:" \o ToString(v.d), "\"">>
      [] v.t = "array" -> <<"[">> \o JsonItems(v.items, 1) \o <<"]">>
      [] v.t = "object" -> <<"{">> \o JsonEntries(v.entries, 1) \o <<"}">>
      [] OTHER -> <<"null">>
JsonItems(items, i) ==
    IF i > Len(items) THEN <<>>
    ELSE (IF i > 1 THEN <<",">> ELSE <<>>)
         \o JsonStringify(items[i]) \o JsonItems(items, i + 1)
JsonEntries(entries, i) ==
    IF i > Len(entries) THEN <<>>
    ELSE (IF i > 1 THEN <<",">> ELSE <<>>)
         \o <<"\"">> \o entries[i][1] \o <<"\":">>
         \o JsonStringify(entries[i][2]) \o JsonEntries(entries, i + 1)

----------------------------------------------------------------------------
(* typeorm's find operators *)

In(v) == [fop |-> "in", value |-> v]
MoreThanOrEqual(v) == [fop |-> "moreThanOrEqual", value |-> v]
LessThanOrEqual(v) == [fop |-> "lessThanOrEqual", value |-> v]
MoreThan(v) == [fop |-> "moreThan", value |-> v]
LessThan(v) == [fop |-> "lessThan", value |-> v]
Between(from, to) == [fop |-> "between", from |-> from, to |-> to]
Like(pattern) == [fop |-> "like", pattern |-> pattern]
ILike(pattern) == [fop |-> "ilike", pattern |-> pattern]
Equal(v) == [fop |-> "equal", value |-> v]
IsNull == [fop |-> "isNull"]
Not(op) == [fop |-> "not", child |-> op]
\* Raw(alias => `${alias}<sql>`, parameters): the template after the alias
Raw(sql, parameters) == [fop |-> "raw", sql |-> sql, parameters |-> parameters]

----------------------------------------------------------------------------
(* parseCondition *)

\* what a call produces
QB(query, parameters) ==
    [kind |-> "qb", query |-> query, hasParameters |-> TRUE, parameters |-> parameters]
QBNoParameters(query) ==
    [kind |-> "qb", query |-> query, hasParameters |-> FALSE, parameters |-> <<>>]
Find(op) == [kind |-> "find", op |-> op]
Throw(message) == [kind |-> "error", message |-> message]

\* item => typeof item === 'string' || typeof item === 'number' || item instanceof Date
IsStringNumberOrDate(item) ==
    TypeOf(item) = "string" \/ TypeOf(item) = "number" \/ InstanceOfDate(item)

\* Array.isArray(v) && v.every(item => ...)
IsArrayOfStringNumberDate(v) ==
    IsArray(v) /\ \A i \in 1..Len(v.items) : IsStringNumberOrDate(v.items[i])

\* ['number', 'string'].includes(typeof v) || v instanceof Date
IsNumberStringOrDate(v) ==
    TypeOf(v) \in {"number", "string"} \/ InstanceOfDate(v)

\* Array.isArray(v) && v.length === 2 && v.every(...)
IsPairOfStringNumberDate(v) ==
    IsArray(v) /\ Len(v.items) = 2
    /\ \A i \in 1..Len(v.items) : IsStringNumberOrDate(v.items[i])

\* typeof v === 'string' || 'number' || 'boolean' || v instanceof Date
IsStringNumberBooleanOrDate(v) ==
    TypeOf(v) = "string" \/ TypeOf(v) = "number" \/ TypeOf(v) = "boolean"
    \/ InstanceOfDate(v)

\* `%${v}%`, `${v}%`, `%${v}`
Wrapped(v) == Str(<<"%">> \o v.s \o <<"%">>)
Prefixed(v) == Str(v.s \o <<"%">>)
Suffixed(v) == Str(<<"%">> \o v.s)

\* `${pp}_${a}`
ParamName(pp, a) == pp \o <<"_">> \o Interp(a)

\* { query: `${a}<sql>${name}<tail>`, parameters: { [name]: value } }
Fragment(a, sql, name, tail, value) ==
    QB(Interp(a) \o <<sql>> \o name \o tail, << <<name, value>> >>)

\* case '$in' binding the array in reverse order
Case_in_Reversed(conditionFor, a, pp, v) ==
    IF IsArrayOfStringNumberDate(v)
    THEN LET xs == Arr([i \in 1..Len(v.items) |-> v.items[Len(v.items) + 1 - i]])
         IN IF conditionFor = "qb"
            THEN Fragment(a, " IN (:...", ParamName(pp, a), <<")">>, xs)
            ELSE Find(In(xs))
    ELSE Throw(<<"$IN_OPERATOR_MUST_HAVE_AN_ARRAY_OF_STRINGS_OR_NUMBERS">>)

\* case '$in'
Case_in(conditionFor, a, pp, v) ==
    IF IsArrayOfStringNumberDate(v)
    THEN IF conditionFor = "qb"
         THEN Fragment(a, " IN (:...", ParamName(pp, a), <<")">>, v)
         ELSE Find(In(v))
    ELSE Throw(<<"$IN_OPERATOR_MUST_HAVE_AN_ARRAY_OF_STRINGS_OR_NUMBERS">>)

\* case '$notIn'
Case_notIn(conditionFor, a, pp, v) ==
    IF IsArrayOfStringNumberDate(v)
    THEN IF conditionFor = "qb"
         THEN Fragment(a, " NOT IN (:...", ParamName(pp, a), <<")">>, v)
         ELSE Find(Not(In(v)))
    ELSE Throw(<<"$IN_OPERATOR_MUST_HAVE_AN_ARRAY_OF_STRINGS_OR_NUMBERS">>)

\* case '$gte'
Case_gte(conditionFor, a, pp, v) ==
    IF IsNumberStringOrDate(v)
    THEN IF conditionFor = "qb"
         THEN Fragment(a, " >= :", ParamName(pp, a), <<>>, v)
         ELSE Find(MoreThanOrEqual(v))
    ELSE Throw(<<"$GTE_OPERATOR_MUST_HAVE_A_NUMBER_STRING_OR_DATE">>)

\* case '$lte'
Case_lte(conditionFor, a, pp, v) ==
    IF IsNumberStringOrDate(v)
    THEN IF conditionFor = "qb"
         THEN Fragment(a, " <= :", ParamName(pp, a), <<>>, v)
         ELSE Find(LessThanOrEqual(v))
    ELSE Throw(<<"$LTE_OPERATOR_MUST_HAVE_A_NUMBER_STRING_OR_DATE">>)

\* case '$gt' whose find operator includes the bound
Case_gt_FindInclusive(conditionFor, a, pp, v) ==
    IF IsNumberStringOrDate(v)
    THEN IF conditionFor = "qb"
         THEN Fragment(a, " > :", ParamName(pp, a), <<>>, v)
         ELSE Find(MoreThanOrEqual(v))
    ELSE Throw(<<"$GT_OPERATOR_MUST_HAVE_A_NUMBER_STRING_OR_DATE_VALUE">>)

\* case '$gt'
Case_gt(conditionFor, a, pp, v) ==
    IF IsNumberStringOrDate(v)
    THEN IF conditionFor = "qb"
         THEN Fragment(a, " > :", ParamName(pp, a), <<>>, v)
         ELSE Find(MoreThan(v))
    ELSE Throw(<<"$GT_OPERATOR_MUST_HAVE_A_NUMBER_STRING_OR_DATE">>)

\* case '$lt'
Case_lt(conditionFor, a, pp, v) ==
    IF IsNumberStringOrDate(v)
    THEN IF conditionFor = "qb"
         THEN Fragment(a, " < :", ParamName(pp, a), <<>>, v)
         ELSE Find(LessThan(v))
    ELSE Throw(<<"$LT_OPERATOR_MUST_HAVE_A_NUMBER_STRING_OR_DATE">>)

\* case '$between' with the bounds put in ascending order
Case_between_Sorted(conditionFor, a, pp, v) ==
    IF IsPairOfStringNumberDate(v)
    THEN LET swap == v.items[1].t = "number" /\ v.items[2].t = "number"
                         /\ v.items[1].n > v.items[2].n
             from == IF swap THEN v.items[2] ELSE v.items[1]
             to == IF swap THEN v.items[1] ELSE v.items[2]
         IN IF conditionFor = "qb"
            THEN QB(Interp(a) \o <<" BETWEEN :">> \o ParamName(pp, a) \o <<"_start">>
                        \o <<" AND :">> \o ParamName(pp, a) \o <<"_end">>,
                    << <<ParamName(pp, a) \o <<"_start">>, from>>,
                       <<ParamName(pp, a) \o <<"_end">>, to>> >>)
            ELSE Find(Between(from, to))
    ELSE Throw(<<"$BETWEEN_OPERATOR_MUST_HAVE_AN_ARRAY_WITH_TWO_VALUES">>)

\* case '$between'
Case_between(conditionFor, a, pp, v) ==
    IF IsPairOfStringNumberDate(v)
    THEN IF conditionFor = "qb"
         THEN QB(Interp(a) \o <<" BETWEEN :">> \o ParamName(pp, a) \o <<"_start">>
                     \o <<" AND :">> \o ParamName(pp, a) \o <<"_end">>,
                 << <<ParamName(pp, a) \o <<"_start">>, v.items[1]>>,
                    <<ParamName(pp, a) \o <<"_end">>, v.items[2]>> >>)
         ELSE Find(Between(v.items[1], v.items[2]))
    ELSE Throw(<<"$BETWEEN_OPERATOR_MUST_HAVE_AN_ARRAY_WITH_TWO_VALUES">>)

\* case '$notBetween'
Case_notBetween(conditionFor, a, pp, v) ==
    IF IsPairOfStringNumberDate(v)
    THEN IF conditionFor = "qb"
         THEN QB(Interp(a) \o <<" NOT BETWEEN :">> \o ParamName(pp, a) \o <<"_start">>
                     \o <<" AND :">> \o ParamName(pp, a) \o <<"_end">>,
                 << <<ParamName(pp, a) \o <<"_start">>, v.items[1]>>,
                    <<ParamName(pp, a) \o <<"_end">>, v.items[2]>> >>)
         ELSE Find(Not(Between(v.items[1], v.items[2])))
    ELSE Throw(<<"$NOT_BETWEEN_OPERATOR_MUST_HAVE_AN_ARRAY_WITH_TWO_VALUES">>)

\* case '$contains'
Case_contains(conditionFor, a, pp, v) ==
    IF TypeOf(v) = "string"
    THEN IF conditionFor = "qb"
         THEN Fragment(a, " LIKE :", ParamName(pp, a), <<>>, Wrapped(v))
         ELSE Find(Like(Wrapped(v)))
    ELSE Throw(<<"$CONTAINS_OPERATOR_MUST_HAVE_A_STRING_VALUE">>)

\* case '$notContains'
Case_notContains(conditionFor, a, pp, v) ==
    IF TypeOf(v) = "string"
    THEN IF conditionFor = "qb"
         THEN Fragment(a, " NOT LIKE :", ParamName(pp, a), <<>>, Wrapped(v))
         ELSE Find(Not(Like(Wrapped(v))))
    ELSE Throw(<<"$NOT_CONTAINS_OPERATOR_MUST_HAVE_A_STRING_VALUE">>)

\* case '$iContains'
Case_iContains(conditionFor, a, pp, v) ==
    IF TypeOf(v) = "string"
    THEN IF conditionFor = "qb"
         THEN Fragment(a, " ILIKE :", ParamName(pp, a), <<>>, Wrapped(v))
         ELSE Find(ILike(Wrapped(v)))
    ELSE Throw(<<"$I_CONTAINS_OPERATOR_MUST_HAVE_A_STRING_VALUE">>)

\* case '$notIContains'
Case_notIContains(conditionFor, a, pp, v) ==
    IF TypeOf(v) = "string"
    THEN IF conditionFor = "qb"
         THEN Fragment(a, " NOT ILIKE :", ParamName(pp, a), <<>>, Wrapped(v))
         ELSE Find(Not(ILike(Wrapped(v))))
    ELSE Throw(<<"$NOT_I_CONTAINS_OPERATOR_MUST_HAVE_A_STRING_VALUE">>)

\* case '$startsWith'
Case_startsWith(conditionFor, a, pp, v) ==
    IF TypeOf(v) = "string"
    THEN IF conditionFor = "qb"
         THEN Fragment(a, " LIKE :", ParamName(pp, a), <<>>, Prefixed(v))
         ELSE Find(Like(Prefixed(v)))
    ELSE Throw(<<"$STARTS_WITH_OPERATOR_MUST_HAVE_A_STRING_VALUE">>)

\* case '$notStartsWith'
Case_notStartsWith(conditionFor, a, pp, v) ==
    IF TypeOf(v) = "string"
    THEN IF conditionFor = "qb"
         THEN Fragment(a, " NOT LIKE :", ParamName(pp, a), <<>>, Prefixed(v))
         ELSE Find(Not(Like(Prefixed(v))))
    ELSE Throw(<<"$NOT_STARTS_WITH_OPERATOR_MUST_HAVE_A_STRING_VALUE">>)

\* case '$endsWith' with the wildcard after the operand
Case_endsWith_Trailing(conditionFor, a, pp, v) ==
    IF TypeOf(v) = "string"
    THEN IF conditionFor = "qb"
         THEN Fragment(a, " LIKE :", ParamName(pp, a), <<>>, Prefixed(v))
         ELSE Find(Like(Prefixed(v)))
    ELSE Throw(<<"$ENDS_WITH_OPERATOR_MUST_HAVE_A_STRING_VALUE">>)

\* case '$endsWith'
Case_endsWith(conditionFor, a, pp, v) ==
    IF TypeOf(v) = "string"
    THEN IF conditionFor = "qb"
         THEN Fragment(a, " LIKE :", ParamName(pp, a), <<>>, Suffixed(v))
         ELSE Find(Like(Suffixed(v)))
    ELSE Throw(<<"$ENDS_WITH_OPERATOR_MUST_HAVE_A_STRING_VALUE">>)

\* case '$notEndsWith'
Case_notEndsWith(conditionFor, a, pp, v) ==
    IF TypeOf(v) = "string"
    THEN IF conditionFor = "qb"
         THEN Fragment(a, " NOT LIKE :", ParamName(pp, a), <<>>, Suffixed(v))
         ELSE Find(Not(Like(Suffixed(v))))
    ELSE Throw(<<"$NOT_ENDS_WITH_OPERATOR_MUST_HAVE_A_STRING_VALUE">>)

\* case '$equalTo' writing the inequality of the next case
Case_equalTo_Inequality(conditionFor, a, pp, v) ==
    IF IsStringNumberBooleanOrDate(v)
    THEN IF conditionFor = "qb"
         THEN Fragment(a, " != :", ParamName(pp, a), <<>>, v)
         ELSE Find(Not(Equal(v)))
    ELSE Throw(<<"$EQUAL_TO_OPERATOR_MUST_HAVE_A_STRING_NUMBER_BOOLEAN_OR_DATE_VALUE">>)

\* case '$equalTo'
Case_equalTo(conditionFor, a, pp, v) ==
    IF IsStringNumberBooleanOrDate(v)
    THEN IF conditionFor = "qb"
         THEN Fragment(a, " = :", ParamName(pp, a), <<>>, v)
         ELSE Find(Equal(v))
    ELSE Throw(<<"$EQUAL_TO_OPERATOR_MUST_HAVE_A_STRING_NUMBER_BOOLEAN_OR_DATE_VALUE">>)

\* case '$notEqualTo'
Case_notEqualTo(conditionFor, a, pp, v) ==
    IF IsStringNumberBooleanOrDate(v)
    THEN IF conditionFor = "qb"
         THEN Fragment(a, " != :", ParamName(pp, a), <<>>, v)
         ELSE Find(Not(Equal(v)))
    ELSE Throw(<<"$NOT_EQUAL_TO_OPERATOR_MUST_HAVE_A_STRING_NUMBER_BOOLEAN_OR_DATE_VALUE">>)

\* case '$regex'
Case_regex(conditionFor, a, pp, v) ==
    IF TypeOf(v) = "string"
    THEN IF conditionFor = "qb"
         THEN Fragment(a, " ~ :", ParamName(pp, a), <<>>, v)
         ELSE Find(Raw(<<" ~ :">> \o ParamName(pp, a), << <<ParamName(pp, a), v>> >>))
    ELSE Throw(<<"$REGEX_OPERATOR_MUST_HAVE_A_STRING_VALUE">>)

\* case '$notRegex'
Case_notRegex(conditionFor, a, pp, v) ==
    IF TypeOf(v) = "string"
    THEN IF conditionFor = "qb"
         THEN Fragment(a, " !~ :", ParamName(pp, a), <<>>, v)
         ELSE Find(Raw(<<" !~ :">> \o ParamName(pp, a), << <<ParamName(pp, a), v>> >>))
    ELSE Throw(<<"$NOT_REGEX_OPERATOR_MUST_HAVE_A_STRING_VALUE">>)

\* case '$regexi'
Case_regexi(conditionFor, a, pp, v) ==
    IF TypeOf(v) = "string"
    THEN IF conditionFor = "qb"
         THEN Fragment(a, " ~* :", ParamName(pp, a), <<>>, v)
         ELSE Find(Raw(<<" ~* :">> \o ParamName(pp, a), << <<ParamName(pp, a), v>> >>))
    ELSE Throw(<<"$REGEXI_OPERATOR_MUST_HAVE_A_STRING_VALUE">>)

\* case '$notRegexi'
Case_notRegexi(conditionFor, a, pp, v) ==
    IF TypeOf(v) = "string"
    THEN IF conditionFor = "qb"
         THEN Fragment(a, " !~* :", ParamName(pp, a), <<>>, v)
         ELSE Find(Raw(<<" !~* :">> \o ParamName(pp, a), << <<ParamName(pp, a), v>> >>))
    ELSE Throw(<<"$NOT_REGEXI_OPERATOR_MUST_HAVE_A_STRING_VALUE">>)

\* case '$jsonContains'
Case_jsonContains(conditionFor, a, pp, v) ==
    IF conditionFor = "qb"
    THEN Fragment(a, " @> :", ParamName(pp, a), <<>>, Str(JsonStringify(v)))
    ELSE Find(Raw(<<" @> :">> \o ParamName(pp, a), << <<ParamName(pp, a), Str(JsonStringify(v))>> >>))

\* case '$jsonContained'
Case_jsonContained(conditionFor, a, pp, v) ==
    IF conditionFor = "qb"
    THEN Fragment(a, " <@ :", ParamName(pp, a), <<>>, Str(JsonStringify(v)))
    ELSE Find(Raw(<<" <@ :">> \o ParamName(pp, a), << <<ParamName(pp, a), Str(JsonStringify(v))>> >>))

\* case '$jsonEquals'
Case_jsonEquals(conditionFor, a, pp, v) ==
    IF conditionFor = "qb"
    THEN Fragment(a, " = :", ParamName(pp, a), <<>>, Str(JsonStringify(v)))
    ELSE Find(Raw(<<" = :">> \o ParamName(pp, a), << <<ParamName(pp, a), Str(JsonStringify(v))>> >>))

\* case '$jsonHasKey' with the _key suffix on the parameter only
Case_jsonHasKey_SuffixOnParameter(conditionFor, a, pp, v) ==
    IF conditionFor = "qb"
    THEN QB(Interp(a) \o <<" ? :">> \o ParamName(pp, a),
            << <<ParamName(pp, a) \o <<"_key">>, v>> >>)
    ELSE Find(Raw(<<" ? :">> \o ParamName(pp, a), << <<ParamName(pp, a) \o <<"_key">>, v>> >>))

\* case '$jsonHasKey'
Case_jsonHasKey(conditionFor, a, pp, v) ==
    IF conditionFor = "qb"
    THEN Fragment(a, " ? :", ParamName(pp, a) \o <<"_key">>, <<>>, v)
    ELSE Find(Raw(<<" ? :">> \o ParamName(pp, a) \o <<"_key">>, << <<ParamName(pp, a) \o <<"_key">>, v>> >>))

\* switch (conditionOperator)
Switch(conditionFor, a, pp, conditionOperator, v) ==
    CASE conditionOperator = <<"$", "in">> -> Case_in(conditionFor, a, pp, v)
      [] conditionOperator = <<"$", "notIn">> -> Case_notIn(conditionFor, a, pp, v)
      [] conditionOperator = <<"$", "gte">> -> Case_gte(conditionFor, a, pp, v)
      [] conditionOperator = <<"$", "lte">> -> Case_lte(conditionFor, a, pp, v)
      [] conditionOperator = <<"$", "gt">> -> Case_gt(conditionFor, a, pp, v)
      [] conditionOperator = <<"$", "lt">> -> Case_lt(conditionFor, a, pp, v)
      [] conditionOperator = <<"$", "between">> -> Case_between(conditionFor, a, pp, v)
      [] conditionOperator = <<"$", "notBetween">> -> Case_notBetween(conditionFor, a, pp, v)
      [] conditionOperator = <<"$", "contains">> -> Case_contains(conditionFor, a, pp, v)
      [] conditionOperator = <<"$", "notContains">> -> Case_notContains(conditionFor, a, pp, v)
      [] conditionOperator = <<"$", "iContains">> -> Case_iContains(conditionFor, a, pp, v)
      [] conditionOperator = <<"$", "notIContains">> -> Case_notIContains(conditionFor, a, pp, v)
      [] conditionOperator = <<"$", "startsWith">> -> Case_startsWith(conditionFor, a, pp, v)
      [] conditionOperator = <<"$", "notStartsWith">> -> Case_notStartsWith(conditionFor, a, pp, v)
      [] conditionOperator = <<"$", "endsWith">> -> Case_endsWith(conditionFor, a, pp, v)
      [] conditionOperator = <<"$", "notEndsWith">> -> Case_notEndsWith(conditionFor, a, pp, v)
      [] conditionOperator = <<"$", "equalTo">> -> Case_equalTo(conditionFor, a, pp, v)
      [] conditionOperator = <<"$", "notEqualTo">> -> Case_notEqualTo(conditionFor, a, pp, v)
      [] conditionOperator = <<"$", "regex">> -> Case_regex(conditionFor, a, pp, v)
      [] conditionOperator = <<"$", "notRegex">> -> Case_notRegex(conditionFor, a, pp, v)
      [] conditionOperator = <<"$", "regexi">> -> Case_regexi(conditionFor, a, pp, v)
      [] conditionOperator = <<"$", "notRegexi">> -> Case_notRegexi(conditionFor, a, pp, v)
      [] conditionOperator = <<"$", "jsonContains">> -> Case_jsonContains(conditionFor, a, pp, v)
      [] conditionOperator = <<"$", "jsonContained">> -> Case_jsonContained(conditionFor, a, pp, v)
      [] conditionOperator = <<"$", "jsonEquals">> -> Case_jsonEquals(conditionFor, a, pp, v)
      [] conditionOperator = <<"$", "jsonHasKey">> -> Case_jsonHasKey(conditionFor, a, pp, v)
      [] OTHER -> Throw(<<"INVALID_CONDITION_OPERATOR ">> \o conditionOperator)

\* the object branch taking the first key of an object with several keys
ParseObject_FirstKey(conditionFor, a, condition, uniqueId) ==
    IF Len(ObjectKeys(condition)) = 0
    THEN Throw(<<"CONDITION_OBJECT_MUST_HAVE_EXACTLY_ONE_KEY">>)
    ELSE LET conditionOperator == condition.entries[1][1]
             conditionValue == condition.entries[1][2]
             pp == uniqueId \o <<"_">> \o ReplaceDollar(conditionOperator)
         IN IF conditionValue = Undefined \/ conditionValue = Null
            THEN Throw(<<"CONDITION_VALUE_CANNOT_BE_UNDEFINED_OR_NULL">>)
            ELSE Switch(conditionFor, a, pp, conditionOperator, conditionValue)

\* the branch of parseCondition for a condition that is a non-array object
\* (Object.entries yields string keys, so CONDITION_OPERATOR_MUST_BE_A_STRING
\* is never thrown)
ParseObject(conditionFor, a, condition, uniqueId) ==
    IF Len(ObjectKeys(condition)) # 1
    THEN Throw(<<"CONDITION_OBJECT_MUST_HAVE_EXACTLY_ONE_KEY">>)
    ELSE LET conditionOperator == condition.entries[1][1]
             conditionValue == condition.entries[1][2]
             pp == uniqueId \o <<"_">> \o ReplaceDollar(conditionOperator)
         IN IF conditionValue = Undefined \/ conditionValue = Null
            THEN Throw(<<"CONDITION_VALUE_CANNOT_BE_UNDEFINED_OR_NULL">>)
            ELSE Switch(conditionFor, a, pp, conditionOperator, conditionValue)

\* the bare conditions with parameter names that leave the id out
ParseBare_NoId(conditionFor, a, condition, uniqueId) ==
    IF IsArrayOfStringNumberDate(condition)
    THEN IF conditionFor = "qb"
         THEN Fragment(a, " IN (:...", <<"_in_">> \o Interp(a), <<")">>, condition)
         ELSE Find(In(condition))
    ELSE IF condition = Str(<<"$", "isNull">>)
    THEN IF conditionFor = "qb"
         THEN QBNoParameters(Interp(a) \o <<" IS NULL">>)
         ELSE Find(IsNull)
    ELSE IF condition = Str(<<"$", "isNotNull">>)
    THEN IF conditionFor = "qb"
         THEN QBNoParameters(Interp(a) \o <<" IS NOT NULL">>)
         ELSE Find(Not(IsNull))
    ELSE IF IsStringNumberBooleanOrDate(condition)
    THEN IF conditionFor = "qb"
         THEN Fragment(a, " = :", <<"_eq_">> \o Interp(a), <<>>, condition)
         ELSE Find(Equal(condition))
    ELSE Throw(<<"INVALID_CONDITION">>)

\* the bare conditions with the literal test made before the sentinel tests
ParseBare_LiteralFirst(conditionFor, a, condition, uniqueId) ==
    IF IsArrayOfStringNumberDate(condition)
    THEN IF conditionFor = "qb"
         THEN Fragment(a, " IN (:...", uniqueId \o <<"_in_">> \o Interp(a),
                       <<")">>, condition)
         ELSE Find(In(condition))
    ELSE IF IsStringNumberBooleanOrDate(condition)
    THEN IF conditionFor = "qb"
         THEN Fragment(a, " = :", uniqueId \o <<"_eq_">> \o Interp(a), <<>>,
                       condition)
         ELSE Find(Equal(condition))
    ELSE IF condition = Str(<<"$", "isNull">>)
    THEN IF conditionFor = "qb"
         THEN QBNoParameters(Interp(a) \o <<" IS NULL">>)
         ELSE Find(IsNull)
    ELSE IF condition = Str(<<"$", "isNotNull">>)
    THEN IF conditionFor = "qb"
         THEN QBNoParameters(Interp(a) \o <<" IS NOT NULL">>)
         ELSE Find(Not(IsNull))
    ELSE Throw(<<"INVALID_CONDITION">>)

\* the branches of parseCondition for a condition that is no object: a bare
\* array, a sentinel string, a literal
ParseBare(conditionFor, a, condition, uniqueId) ==
    IF IsArrayOfStringNumberDate(condition)
    THEN IF conditionFor = "qb"
         THEN Fragment(a, " IN (:...", uniqueId \o <<"_in_">> \o Interp(a),
                       <<")">>, condition)
         ELSE Find(In(condition))
    ELSE IF condition = Str(<<"$", "isNull">>)
    THEN IF conditionFor = "qb"
         THEN QBNoParameters(Interp(a) \o <<" IS NULL">>)
         ELSE Find(IsNull)
    ELSE IF condition = Str(<<"$", "isNotNull">>)
    THEN IF conditionFor = "qb"
         THEN QBNoParameters(Interp(a) \o <<" IS NOT NULL">>)
         ELSE Find(Not(IsNull))
    ELSE IF IsStringNumberBooleanOrDate(condition)
    THEN IF conditionFor = "qb"
         THEN Fragment(a, " = :", uniqueId \o <<"_eq_">> \o Interp(a), <<>>,
                       condition)
         ELSE Find(Equal(condition))
    ELSE Throw(<<"INVALID_CONDITION">>)

\* the alias check made in both modes
AliasRejected_AnyMode(conditionFor, a) ==
    TypeOf(a) # "string" \/ Len(Trim(a.s)) = 0

\* (typeof a !== 'string' || a.trim().length === 0) && conditionFor === 'qb'
AliasRejected(conditionFor, a) ==
    (TypeOf(a) # "string" \/ Len(Trim(a.s)) = 0) /\ conditionFor = "qb"

\* parseCondition with the id generated once, when the module is loaded
parseCondition_ModuleId(conditionFor, a, condition, uuid) ==
    IF conditionFor # "qb" /\ conditionFor # "find"
    THEN Throw(<<"UNSUPPORTED_CONDITION_FOR_VALUE">>)
    ELSE LET uniqueId == ReplaceHyphens(Uuid(0))
         IN IF AliasRejected(conditionFor, a)
            THEN Throw(<<"ALIAS_MUST_BE_A_NON_EMPTY_STRING">>)
            ELSE IF condition = Undefined \/ condition = Null
            THEN Throw(<<"CONDITION_CANNOT_BE_UNDEFINED_OR_NULL">>)
            ELSE IF TypeOf(condition) = "object" /\ ~IsArray(condition)
            THEN ParseObject(conditionFor, a, condition, uniqueId)
            ELSE ParseBare(conditionFor, a, condition, uniqueId)

\* parseCondition with the null check made before the alias check
parseCondition_NullFirst(conditionFor, a, condition, uuid) ==
    IF conditionFor # "qb" /\ conditionFor # "find"
    THEN Throw(<<"UNSUPPORTED_CONDITION_FOR_VALUE">>)
    ELSE LET uniqueId == ReplaceHyphens(uuid)
         IN IF condition = Undefined \/ condition = Null
            THEN Throw(<<"CONDITION_CANNOT_BE_UNDEFINED_OR_NULL">>)
            ELSE IF AliasRejected(conditionFor, a)
            THEN Throw(<<"ALIAS_MUST_BE_A_NON_EMPTY_STRING">>)
            ELSE IF TypeOf(condition) = "object" /\ ~IsArray(condition)
            THEN ParseObject(conditionFor, a, condition, uniqueId)
            ELSE ParseBare(conditionFor, a, condition, uniqueId)

\* parseCondition with the id left as uuid() returns it
parseCondition_Hyphenated(conditionFor, a, condition, uuid) ==
    IF conditionFor # "qb" /\ conditionFor # "find"
    THEN Throw(<<"UNSUPPORTED_CONDITION_FOR_VALUE">>)
    ELSE LET uniqueId == uuid
         IN IF AliasRejected(conditionFor, a)
            THEN Throw(<<"ALIAS_MUST_BE_A_NON_EMPTY_STRING">>)
            ELSE IF condition = Undefined \/ condition = Null
            THEN Throw(<<"CONDITION_CANNOT_BE_UNDEFINED_OR_NULL">>)
            ELSE IF TypeOf(condition) = "object" /\ ~IsArray(condition)
            THEN ParseObject(conditionFor, a, condition, uniqueId)
            ELSE ParseBare(conditionFor, a, condition, uniqueId)

\* parseCondition({ fieldAlias: a, condition, conditionFor }), with the value
\* uuid() returns in this call
parseCondition(conditionFor, a, condition, uuid) ==
    IF conditionFor # "qb" /\ conditionFor # "find"
    THEN Throw(<<"UNSUPPORTED_CONDITION_FOR_VALUE">>)
    ELSE LET uniqueId == ReplaceHyphens(uuid)
         IN IF AliasRejected(conditionFor, a)
            THEN Throw(<<"ALIAS_MUST_BE_A_NON_EMPTY_STRING">>)
            ELSE IF condition = Undefined \/ condition = Null
            THEN Throw(<<"CONDITION_CANNOT_BE_UNDEFINED_OR_NULL">>)
            ELSE IF TypeOf(condition) = "object" /\ ~IsArray(condition)
            THEN ParseObject(conditionFor, a, condition, uniqueId)
            ELSE ParseBare(conditionFor, a, condition, uniqueId)

----------------------------------------------------------------------------
(* The inputs of the parseCondition specification *)

OperatorTokens ==
    { "in", "notIn", "gte", "lte", "gt", "lt", "between", "notBetween",
      "contains", "notContains", "iContains", "notIContains", "startsWith",
      "notStartsWith", "endsWith", "notEndsWith", "equalTo", "notEqualTo",
      "regex", "notRegex", "regexi", "notRegexi", "jsonContains",
      "jsonContained", "jsonEquals", "jsonHasKey" }

\* operand values: every type the shape checks tell apart
Operands ==
    { Undefined, Null, Str(<<"John">>), Str(<<>>), Num(30), Bool(TRUE), DateV(1),
      Arr(<<>>), Arr(<<Num(1)>>), Arr(<<Num(1), Num(10)>>), Arr(<<Num(10), Num(1)>>),
      Arr(<<Str(<<"a">>), DateV(2)>>), Arr(<<Num(1), Num(2), Num(3)>>),
      Arr(<<Num(1), Bool(FALSE)>>), Arr(<<Null, Num(1)>>),
      Obj(<< <<<<"invalid">>, Str(<<"value">>)>> >>) }

\* keys a condition object may carry: the operator tokens and unknown ones
ConditionKeys ==
    { <<"$", o>> : o \in OperatorTokens } \cup { <<"3">>, <<"$", "isNull">>, <<"in">> }

Conditions ==
    Operands
    \cup { Str(<<"$", "isNull">>), Str(<<"$", "isNotNull">>) }
    \cup { Obj(<< <<k, v>> >>) : k \in ConditionKeys, v \in Operands }
    \cup { Obj(<<>>),
           Obj(<< <<<<"$", "in">>, Arr(<<Num(1), Num(2)>>)>>,
                  <<<<"$", "equalTo">>, Str(<<"3">>)>> >>),
           Obj(<< <<<<"$", "gt">>, Null>>, <<<<"$", "lt">>, Num(5)>> >>),
           Obj(<< <<<<"a">>, Num(1)>>, <<<<"b">>, Num(2)>>, <<<<"c">>, Num(3)>> >>) }

ConditionFors == { "qb", "find", "unsupported" }

FieldAliases ==
    { Str(<<"field">>), Str(<<"user", ".", "name">>), Str(<<>>), Str(<<" ">>),
      Str(<<" ", "f", " ">>), Undefined }

----------------------------------------------------------------------------
(* The where-expression builder (typeorm) as applyWhereConditionsQB uses it *)
(*                                                                          *)
(* wheres: the clauses pushed, in order; parameters: the parameter map, as  *)
(* entries <<name, value>> in insertion order; sets: the names handed to    *)
(* setParameters, in call order.  A Brackets callback runs when the bracket *)
(* is added, on a builder with no clauses of its own that shares the        *)
(* parent's parameter map; the bracket is pushed when the callback returns. *)

EmptyBuilder == [wheres |-> <<>>, parameters |-> <<>>, sets |-> <<>>]

\* the where type a method pushes
WhereType(whereMethod) == IF whereMethod = "andWhere" THEN "and" ELSE "or"

SimpleWhere(whereMethod, query) ==
    [type |-> WhereType(whereMethod), brackets |-> FALSE, query |-> query]
BracketsWhere(whereMethod, wheres) ==
    [type |-> WhereType(whereMethod), brackets |-> TRUE, wheres |-> wheres]

\* parameters[name] = value
SetParameter(parameters, name, value) ==
    IF \E i \in 1..Len(parameters) : parameters[i][1] = name
    THEN [i \in 1..Len(parameters) |->
            IF parameters[i][1] = name THEN <<name, value>> ELSE parameters[i]]
    ELSE Append(parameters, <<name, value>>)

\* setParameters(ps) on builder b
RECURSIVE SetParameters(_, _, _)
SetParameters(b, ps, i) ==
    IF i > Len(ps) THEN b
    ELSE SetParameters(
            [b EXCEPT !.parameters = SetParameter(@, ps[i][1], ps[i][2]),
                      !.sets = Append(@, ps[i][1])],
            ps, i + 1)

\* qb[whereMethod](query, parameters)
AddWhere(b, whereMethod, r) ==
    LET pushed == [b EXCEPT !.wheres = Append(@, SimpleWhere(whereMethod, r.query))]
    IN IF r.hasParameters THEN SetParameters(pushed, r.parameters, 1) ELSE pushed

----------------------------------------------------------------------------
(* applyWhereConditionsQB *)

\* field.includes('.')
IncludesDot(field) == \E i \in 1..Len(field) : field[i] = "."

\* a split at the first dot only, the rest of the key kept as second segment
RECURSIVE Split_AtFirstDot(_, _, _)
Split_AtFirstDot(field, i, current) ==
    IF i > Len(field) THEN <<current>>
    ELSE IF field[i] = "." THEN <<current, SubSeq(field, i + 1, Len(field))>>
    ELSE Split_AtFirstDot(field, i + 1, Append(current, field[i]))

\* field.split('.'): the segments between the dots
RECURSIVE Split(_, _, _)
Split(field, i, current) ==
    IF i > Len(field) THEN <<current>>
    ELSE IF field[i] = "." THEN <<current>> \o Split(field, i + 1, <<>>)
    ELSE Split(field, i + 1, Append(current, field[i]))

\* `${v}` of a destructured segment that may be missing
Segment(parts, k) == IF k <= Len(parts) THEN parts[k] ELSE <<"undefined">>

\* the field reference with the base alias in front of every key
FieldAlias_BaseAlways(alias, field) == alias \o <<".">> \o field

\* let fieldAlias = `${alias}.${field}`; if (field.includes('.')) { ... }
FieldAlias(alias, field) ==
    IF IncludesDot(field)
    THEN LET parts == Split(field, 1, <<>>)
         IN Segment(parts, 1) \o <<".">> \o Segment(parts, 2)
    ELSE alias \o <<".">> \o field

\* JSON.stringify(s) of a string: its quotes escaped
EscapeQuotes(s) == [i \in 1..Len(s) |-> IF s[i] = "\"" THEN "\\\"" ELSE s[i]]

\* an error thrown by parseCondition or by the runtime: new Error(message)
NativeError(name, message) ==
    [name |-> name, message |-> message, stack |-> <<"<stack>">>, own |-> FALSE]

\* JSON.stringify(error): an error's message and name are enumerable only
\* when they were assigned
StringifyError(error) ==
    IF error.own
    THEN <<"{", "\"", "message", "\"", ":", "\"">> \o EscapeQuotes(error.message)
         \o <<"\"", ",", "\"", "name", "\"", ":", "\"", error.name, "\"", "}">>
    ELSE <<"{", "}">>

\* the catch block dropping the caught error's message
ErrorInc_FieldOnly(field, error) ==
    [name |-> "TypeORM_QUERY_CONDITION_PARSING_ERROR",
     message |-> <<"Error parsing condition for field ", "\"">> \o field \o <<"\"">>,
     stack |-> StringifyError(error),
     own |-> TRUE]

\* the catch block: errorInc
ErrorInc(field, error) ==
    [name |-> "TypeORM_QUERY_CONDITION_PARSING_ERROR",
     message |-> <<"Error parsing condition for field ", "\"">> \o field
                 \o <<"\"", ": ">> \o error.message,
     stack |-> StringifyError(error),
     own |-> TRUE]

\* for (const field in conditions) with the hasOwnProperty filter: the
\* entries visited (an array's and a string's indices are own keys; the
\* tokens of a string stand for its characters here)
ForIn(conditions) ==
    CASE conditions.t = "object" -> conditions.entries
      [] conditions.t = "array" ->
            [i \in 1..Len(conditions.items) |->
                <<<<ToString(i - 1)>>, conditions.items[i]>>]
      [] conditions.t = "string" ->
            [i \in 1..Len(conditions.s) |->
                <<<<ToString(i - 1)>>, Str(<<conditions.s[i]>>)>>]
      [] OTHER -> <<>>

\* a builder with the run's uuid() count
Returned(b, uuids) == [thrown |-> FALSE, b |-> b, uuids |-> uuids]
Thrown(b, uuids, error) == [thrown |-> TRUE, b |-> b, uuids |-> uuids, error |-> error]

\* the leaf branch calling parseCondition once to validate and once to build
ApplyLeaf_ParsedTwice(b, uuids, whereMethod, field, condition, alias) ==
    LET r == parseCondition("qb", Str(FieldAlias(alias, field)), condition,
                            Uuid(uuids + 1))
    IN IF r.kind = "error"
       THEN Thrown(b, uuids + 1, ErrorInc(field, NativeError("Error", r.message)))
       ELSE Returned(AddWhere(b, whereMethod,
                              parseCondition("qb", Str(FieldAlias(alias, field)),
                                             condition, Uuid(uuids + 2))),
                     uuids + 2)

\* the leaf branch: parseCondition in qb mode, then qb[whereMethod](query, parameters)
ApplyLeaf(b, uuids, whereMethod, field, condition, alias) ==
    LET r == parseCondition("qb", Str(FieldAlias(alias, field)), condition,
                            Uuid(uuids + 1))
    IN IF r.kind = "error"
       THEN Thrown(b, uuids + 1, ErrorInc(field, NativeError("Error", r.message)))
       ELSE Returned(AddWhere(b, whereMethod, r), uuids + 1)

RECURSIVE ApplyConditions(_, _, _, _, _, _)
RECURSIVE ApplyNested(_, _, _, _, _, _)

\* the $and/$or branch joining the group's clauses with the outer method
ApplyLogical_OuterJoin(b, uuids, whereMethod, field, condition, alias) ==
    IF ~IsArray(condition)
    THEN Thrown(b, uuids,
                ErrorInc(field, NativeError("TypeError",
                                            <<"condition.forEach is not a function">>)))
    ELSE LET nestedQb == [b EXCEPT !.wheres = <<>>]
             n == ApplyNested(nestedQb, uuids, whereMethod, condition.items, 1, alias)
         IN IF n.thrown
            THEN Thrown([n.b EXCEPT !.wheres = b.wheres], n.uuids,
                        ErrorInc(field, n.error))
            ELSE Returned([n.b EXCEPT !.wheres =
                              Append(b.wheres, BracketsWhere(whereMethod, n.b.wheres))],
                          n.uuids)

\* the $and/$or branch pushing the bracket before its callback has returned
ApplyLogical_PartialBracket(b, uuids, whereMethod, field, condition, alias) ==
    IF ~IsArray(condition)
    THEN Thrown(b, uuids,
                ErrorInc(field, NativeError("TypeError",
                                            <<"condition.forEach is not a function">>)))
    ELSE LET nestedQb == [b EXCEPT !.wheres = <<>>]
             n == ApplyNested(nestedQb, uuids,
                              IF field = <<"$", "and">> THEN "andWhere" ELSE "orWhere",
                              condition.items, 1, alias)
             pushed == [n.b EXCEPT !.wheres =
                           Append(b.wheres, BracketsWhere(whereMethod, n.b.wheres))]
         IN IF n.thrown
            THEN Thrown(pushed, n.uuids, ErrorInc(field, n.error))
            ELSE Returned(pushed, n.uuids)

\* the $and/$or branch letting the error of a nested call pass as it is
ApplyLogical_NoRewrap(b, uuids, whereMethod, field, condition, alias) ==
    IF condition = Undefined \/ condition = Null
    THEN Thrown(b, uuids,
                ErrorInc(field, NativeError("TypeError",
                    <<"Cannot read properties of ">> \o Interp(condition)
                    \o <<" (reading 'forEach')">>)))
    ELSE IF ~IsArray(condition)
    THEN Thrown(b, uuids,
                ErrorInc(field, NativeError("TypeError",
                                            <<"condition.forEach is not a function">>)))
    ELSE LET nestedQb == [b EXCEPT !.wheres = <<>>]
             n == ApplyNested(nestedQb, uuids,
                              IF field = <<"$", "and">> THEN "andWhere" ELSE "orWhere",
                              condition.items, 1, alias)
         IN IF n.thrown
            THEN Thrown([n.b EXCEPT !.wheres = b.wheres], n.uuids, n.error)
            ELSE Returned([n.b EXCEPT !.wheres =
                              Append(b.wheres, BracketsWhere(whereMethod, n.b.wheres))],
                          n.uuids)

\* the elements of a group composed each into a bracket of its own, its keys
\* joined with AND
RECURSIVE NestElements(_, _, _, _, _, _)
NestElements(b, uuids, whereMethod, items, i, alias) ==
    IF i > Len(items) THEN Returned(b, uuids)
    ELSE LET r == ApplyConditions([b EXCEPT !.wheres = <<>>], uuids, "andWhere",
                                  ForIn(items[i]), 1, alias)
         IN IF r.thrown THEN Thrown([r.b EXCEPT !.wheres = b.wheres], r.uuids, r.error)
            ELSE NestElements([r.b EXCEPT !.wheres =
                                  Append(b.wheres, BracketsWhere(whereMethod, r.b.wheres))],
                              r.uuids, whereMethod, items, i + 1, alias)

\* the $and/$or branch keeping the boundaries of the group's elements
ApplyLogical_ElementBrackets(b, uuids, whereMethod, field, condition, alias) ==
    IF condition = Undefined \/ condition = Null
    THEN Thrown(b, uuids,
                ErrorInc(field, NativeError("TypeError",
                    <<"Cannot read properties of ">> \o Interp(condition)
                    \o <<" (reading 'forEach')">>)))
    ELSE IF ~IsArray(condition)
    THEN Thrown(b, uuids,
                ErrorInc(field, NativeError("TypeError",
                                            <<"condition.forEach is not a function">>)))
    ELSE LET nestedQb == [b EXCEPT !.wheres = <<>>]
             n == NestElements(nestedQb, uuids,
                               IF field = <<"$", "and">> THEN "andWhere" ELSE "orWhere",
                               condition.items, 1, alias)
         IN IF n.thrown
            THEN Thrown([n.b EXCEPT !.wheres = b.wheres], n.uuids,
                        ErrorInc(field, n.error))
            ELSE Returned([n.b EXCEPT !.wheres =
                              Append(b.wheres, BracketsWhere(whereMethod, n.b.wheres))],
                          n.uuids)

\* the $and/$or branch visiting the group's elements from the last to the first
ApplyLogical_Backwards(b, uuids, whereMethod, field, condition, alias) ==
    IF condition = Undefined \/ condition = Null
    THEN Thrown(b, uuids,
                ErrorInc(field, NativeError("TypeError",
                    <<"Cannot read properties of ">> \o Interp(condition)
                    \o <<" (reading 'forEach')">>)))
    ELSE IF ~IsArray(condition)
    THEN Thrown(b, uuids,
                ErrorInc(field, NativeError("TypeError",
                                            <<"condition.forEach is not a function">>)))
    ELSE LET nestedQb == [b EXCEPT !.wheres = <<>>]
             backwards == [i \in 1..Len(condition.items) |->
                              condition.items[Len(condition.items) + 1 - i]]
             n == ApplyNested(nestedQb, uuids,
                              IF field = <<"$", "and">> THEN "andWhere" ELSE "orWhere",
                              backwards, 1, alias)
         IN IF n.thrown
            THEN Thrown([n.b EXCEPT !.wheres = b.wheres], n.uuids,
                        ErrorInc(field, n.error))
            ELSE Returned([n.b EXCEPT !.wheres =
                              Append(b.wheres, BracketsWhere(whereMethod, n.b.wheres))],
                          n.uuids)

\* the $and/$or branch: qb[whereMethod](new Brackets(nestedQb => condition.forEach(...)))
ApplyLogical(b, uuids, whereMethod, field, condition, alias) ==
    IF condition = Undefined \/ condition = Null
    THEN Thrown(b, uuids,
                ErrorInc(field, NativeError("TypeError",
                    <<"Cannot read properties of ">> \o Interp(condition)
                    \o <<" (reading 'forEach')">>)))
    ELSE IF ~IsArray(condition)
    THEN Thrown(b, uuids,
                ErrorInc(field, NativeError("TypeError",
                                            <<"condition.forEach is not a function">>)))
    ELSE LET nestedQb == [b EXCEPT !.wheres = <<>>]
             n == ApplyNested(nestedQb, uuids,
                              IF field = <<"$", "and">> THEN "andWhere" ELSE "orWhere",
                              condition.items, 1, alias)
         IN IF n.thrown
            THEN Thrown([n.b EXCEPT !.wheres = b.wheres], n.uuids,
                        ErrorInc(field, n.error))
            ELSE Returned([n.b EXCEPT !.wheres =
                              Append(b.wheres, BracketsWhere(whereMethod, n.b.wheres))],
                          n.uuids)

\* one iteration of the for-in loop: the try block and its catch
ApplyField(b, uuids, whereMethod, field, condition, alias) ==
    IF field = <<"$", "and">> \/ field = <<"$", "or">>
    THEN ApplyLogical(b, uuids, whereMethod, field, condition, alias)
    ELSE ApplyLeaf(b, uuids, whereMethod, field, condition, alias)

\* the for-in loop from its i-th entry on
ApplyConditions(b, uuids, whereMethod, entries, i, alias) ==
    IF i > Len(entries) THEN Returned(b, uuids)
    ELSE LET r == ApplyField(b, uuids, whereMethod, entries[i][1], entries[i][2], alias)
         IN IF r.thrown THEN r
            ELSE ApplyConditions(r.b, r.uuids, whereMethod, entries, i + 1, alias)

\* condition.forEach(nestedCondition => applyWhereConditionsQB(nestedQb, ...))
ApplyNested(b, uuids, whereMethod, items, i, alias) ==
    IF i > Len(items) THEN Returned(b, uuids)
    ELSE LET r == ApplyConditions(b, uuids, whereMethod, ForIn(items[i]), 1, alias)
         IN IF r.thrown THEN r
            ELSE ApplyNested(r.b, r.uuids, whereMethod, items, i + 1, alias)

\* applyWhereConditionsQB(qb, whereMethod, conditions, alias)
applyWhereConditionsQB(b, uuids, whereMethod, conditions, alias) ==
    ApplyConditions(b, uuids, whereMethod, ForIn(conditions), 1, alias)

----------------------------------------------------------------------------
(* The inputs of the composer specification *)

F(name) == <<name>>
Leaf(name, condition) == <<F(name), condition>>
And(items) == <<<<"$", "and">>, Arr(items)>>
Or(items) == <<<<"$", "or">>, Arr(items)>>
Op(token, v) == Obj(<< <<<<"$", token>>, v>> >>)

FilterTrees ==
    { Obj(<<>>),
      Obj(<< Leaf("age", Num(30)) >>),
      Obj(<< Leaf("name", Str(<<"John">>)),
             Or(<< Obj(<<Leaf("age", Num(30))>>), Obj(<<Leaf("age", Num(40))>>) >>) >>),
      Obj(<< Leaf("name", Str(<<"John">>)), Leaf("age", Obj(<<>>)) >>),
      Obj(<< Leaf("age", Op("gte", Num(18))), Leaf("name", Null) >>),
      Obj(<< Or(<< Obj(<<Leaf("age", Num(30))>>),
                   Obj(<<Leaf("age", Op("foo", Num(1)))>>) >>) >>),
      Obj(<< Or(<< Obj(<<Leaf("a", Num(1)), Leaf("b", Num(2))>>),
                   Obj(<<Leaf("c", Num(3))>>) >>) >>),
      Obj(<< And(<< Obj(<<Leaf("a", Op("between", Arr(<<Num(1), Num(10)>>)))>>),
                    Obj(<< Or(<< Obj(<<Leaf("a", Op("between", Arr(<<Num(2), Num(3)>>)))>>),
                                 Obj(<<Leaf("b", Str(<<"$", "isNull">>))>>) >>) >>) >>) >>),
      Obj(<< Leaf("x", Num(1)),
             Or(<< Obj(<<Leaf("x", Num(2))>>),
                   Obj(<< And(<< Obj(<<Leaf("y", Op("gte", Bool(TRUE)))>>) >>) >>) >>) >>),
      Obj(<< <<<<"$", "or">>, Num(5)>> >>),
      Obj(<< Leaf("a", Obj(<<>>)), Or(<< Obj(<<Leaf("b", Num(1))>>) >>) >>),
      Obj(<< Leaf("age", Num(30)), <<<<"$", "and">>, Null>> >>),
      Obj(<< And(<<>>) >>),
      Obj(<< <<<<"user", ".", "name">>, Op("in", Arr(<<Num(1), Num(2)>>))>> >>),
      Obj(<< <<<<"a", ".", "b", ".", "c">>, Num(1)>> >>),
      Obj(<< Leaf("born", DateV(1)) >>),
      Obj(<< Leaf("tags", Arr(<<Str(<<"a">>), Str(<<"b">>)>>)),
             Leaf("tags", Op("notEqualTo", Num(0))) >>),
      Obj(<< Or(<< Null, Obj(<<Leaf("a", Num(1))>>) >>), Leaf("a", Num(1)) >>),
      Obj(<< Leaf("doc", Op("jsonHasKey", Num(7))),
             Leaf("doc", Op("jsonContains", Obj(<< <<<<"k">>, Num(1)>> >>))) >>) }

WhereMethods == { "andWhere", "orWhere" }

BaseAliases == { <<"entity">> }

----------------------------------------------------------------------------
(* Specifications *)

NoCall == [conditionFor |-> "none"]
Pending == [kind |-> "pending"]
NoOutcome == [status |-> "none"]

\* parseCondition applied once to an input drawn from the bounded sets
InitParse ==
    /\ call \in [conditionFor : ConditionFors, fieldAlias : FieldAliases,
                 condition : Conditions, uuid : { Uuid(n) : n \in 1..MaxUuid }]
    /\ result = Pending
    /\ qb = EmptyBuilder
    /\ outcome = NoOutcome
    /\ uuidCalls = 0
    /\ ncalls = 0

ParseCondition ==
    /\ result = Pending
    /\ call # NoCall
    /\ result' = parseCondition(call.conditionFor, call.fieldAlias, call.condition,
                                call.uuid)
    /\ uuidCalls' = IF call.conditionFor \in {"qb", "find"} THEN uuidCalls + 1
                    ELSE uuidCalls
    /\ UNCHANGED <<call, qb, outcome, ncalls>>

NextParse == ParseCondition

SpecParse == InitParse /\ [][NextParse]_vars

\* applyWhereConditionsQB called up to MaxCalls times on one builder
InitCompose ==
    /\ call = NoCall
    /\ result = Pending
    /\ qb = EmptyBuilder
    /\ outcome = NoOutcome
    /\ uuidCalls = 0
    /\ ncalls = 0

ApplyWhereConditionsQB(whereMethod, conditions, alias) ==
    /\ ncalls < MaxCalls
    /\ LET r == applyWhereConditionsQB(qb, uuidCalls, whereMethod, conditions, alias)
       IN /\ qb' = r.b
          /\ uuidCalls' = r.uuids
          /\ outcome' = IF r.thrown
                        THEN [status |-> "threw", whereMethod |-> whereMethod,
                              conditions |-> conditions, alias |-> alias,
                              error |-> r.error]
                        ELSE [status |-> "returned", whereMethod |-> whereMethod,
                              conditions |-> conditions, alias |-> alias]
    /\ ncalls' = ncalls + 1
    /\ UNCHANGED <<call, result>>

NextCompose ==
    \E whereMethod \in WhereMethods, conditions \in FilterTrees, alias \in BaseAliases :
        ApplyWhereConditionsQB(whereMethod, conditions, alias)

SpecCompose == InitCompose /\ [][NextCompose]_vars

----------------------------------------------------------------------------
(* Claims about parseCondition (SpecParse) *)

\* a string with a character that is not whitespace
NonBlankString(v) == v.t = "string" /\ \E i \in 1..Len(v.s) : v.s[i] # " "

KnownMode == call.conditionFor \in {"qb", "find"}

\* a recognized mode and a field reference that is a non-blank string
ValidModeAndField == KnownMode /\ NonBlankString(call.fieldAlias)

IsNullish(v) == v.t \in {"undefined", "null"}

\* a key-value object (not a Date, not an array)
IsKeyValueObject(v) == v.t = "object"

\* a key-value object with one key
IsOperatorObject(v) == IsKeyValueObject(v) /\ Len(v.entries) = 1

OperatorOf(v) == v.entries[1][1]
OperandOf(v) == v.entries[1][2]

KnownOperators == { <<"$", o>> : o \in OperatorTokens }

\* the messages of the checks that precede an operator's operand check
EarlierMessages ==
    { <<"UNSUPPORTED_CONDITION_FOR_VALUE">>, <<"ALIAS_MUST_BE_A_NON_EMPTY_STRING">>,
      <<"CONDITION_CANNOT_BE_UNDEFINED_OR_NULL">>,
      <<"CONDITION_OBJECT_MUST_HAVE_EXACTLY_ONE_KEY">>,
      <<"CONDITION_VALUE_CANNOT_BE_UNDEFINED_OR_NULL">>, <<"INVALID_CONDITION">> }

\* C1: parseCondition reports the error of the earliest failing check, in the
\* order mode, alias (qb), null condition, key count, null value, unknown
\* operator, operand shape.
C1_ValidationOrder ==
    result # Pending =>
        LET c == call.condition
        IN CASE ~KnownMode ->
                  result = Throw(<<"UNSUPPORTED_CONDITION_FOR_VALUE">>)
             [] call.conditionFor = "qb" /\ ~NonBlankString(call.fieldAlias) ->
                  result = Throw(<<"ALIAS_MUST_BE_A_NON_EMPTY_STRING">>)
             [] IsNullish(c) ->
                  result = Throw(<<"CONDITION_CANNOT_BE_UNDEFINED_OR_NULL">>)
             [] IsKeyValueObject(c) /\ Len(c.entries) # 1 ->
                  result = Throw(<<"CONDITION_OBJECT_MUST_HAVE_EXACTLY_ONE_KEY">>)
             [] IsOperatorObject(c) /\ IsNullish(OperandOf(c)) ->
                  result = Throw(<<"CONDITION_VALUE_CANNOT_BE_UNDEFINED_OR_NULL">>)
             [] IsOperatorObject(c) /\ OperatorOf(c) \notin KnownOperators ->
                  result = Throw(<<"INVALID_CONDITION_OPERATOR ">> \o OperatorOf(c))
             [] IsOperatorObject(c) ->
                  result.kind = "error" =>
                      /\ result.message \notin EarlierMessages
                      /\ Head(result.message) # "INVALID_CONDITION_OPERATOR "
             [] OTHER -> TRUE

\* an input that violates the alias check and the key-count check reports
\* the alias error; one with an unknown operator and a null value reports the
\* missing value
C1_Witness ==
    \/ /\ result = Throw(<<"ALIAS_MUST_BE_A_NON_EMPTY_STRING">>)
       /\ call.condition = Obj(<<>>)
       /\ call.fieldAlias = Str(<<>>)
    \/ /\ result = Throw(<<"CONDITION_VALUE_CANNOT_BE_UNDEFINED_OR_NULL">>)
       /\ IsOperatorObject(call.condition)
       /\ OperatorOf(call.condition) = <<"3">>

\* the sentinel strings
IsSentinel(v) == v = Str(<<"$", "isNull">>) \/ v = Str(<<"$", "isNotNull">>)

\* a string, number, boolean or Date
IsScalar(v) == v.t \in {"string", "number", "boolean", "date"}

\* the fragment `<field><sql>:<p>` with parameters {<p>: value}, for some
\* parameter name <p>
IsFragment(r, field, sql, value) ==
    /\ r.kind = "qb"
    /\ r.hasParameters
    /\ Len(r.parameters) = 1
    /\ r.parameters[1][2] = value
    /\ r.query = field.s \o <<sql>> \o r.parameters[1][1]

\* C6 (as claimed): every bare string (no sentinel), number, boolean or Date
\* compiles to equality on the field, in both modes.
C6_BareLiteralIsEquality ==
    (result # Pending /\ ValidModeAndField
        /\ IsScalar(call.condition) /\ ~IsSentinel(call.condition)) =>
        IF call.conditionFor = "qb"
        THEN IsFragment(result, call.fieldAlias, " = :", call.condition)
        ELSE result = Find(Equal(call.condition))

\* C7: with a valid mode and field reference, a key-value object with 0 or
\* with 2 or more keys fails with CONDITION_OBJECT_MUST_HAVE_EXACTLY_ONE_KEY
\* and a null or undefined condition with
\* CONDITION_CANNOT_BE_UNDEFINED_OR_NULL.
C7_ShapeAndNullRejected ==
    (result # Pending /\ ValidModeAndField) =>
        /\ (IsKeyValueObject(call.condition) /\ Len(call.condition.entries) # 1) =>
               result = Throw(<<"CONDITION_OBJECT_MUST_HAVE_EXACTLY_ONE_KEY">>)
        /\ IsNullish(call.condition) =>
               result = Throw(<<"CONDITION_CANNOT_BE_UNDEFINED_OR_NULL">>)

\* an object with two operators was rejected for its key count
C7_Witness ==
    /\ result = Throw(<<"CONDITION_OBJECT_MUST_HAVE_EXACTLY_ONE_KEY">>)
    /\ ValidModeAndField
    /\ IsKeyValueObject(call.condition)
    /\ Len(call.condition.entries) >= 2
    /\ call.condition.entries[1][1] = <<"$", "in">>

\* the operand shape the operator table requires
ArrayOfStringNumberDate(v) ==
    v.t = "array" /\ \A i \in 1..Len(v.items) : v.items[i].t \in {"string", "number", "date"}

RequiredShape(token, v) ==
    CASE token \in {"in", "notIn"} -> ArrayOfStringNumberDate(v)
      [] token \in {"gte", "lte", "gt", "lt"} -> v.t \in {"string", "number", "date"}
      [] token \in {"between", "notBetween"} ->
            ArrayOfStringNumberDate(v) /\ Len(v.items) = 2
      [] token \in {"contains", "notContains", "iContains", "notIContains",
                    "startsWith", "notStartsWith", "endsWith", "notEndsWith",
                    "regex", "notRegex", "regexi", "notRegexi"} -> v.t = "string"
      [] token \in {"equalTo", "notEqualTo"} -> IsScalar(v)
      [] token = "jsonHasKey" -> v.t = "string"
      [] OTHER -> TRUE

\* the operators whose operand shape C8 lists
ShapedOperators ==
    OperatorTokens \ {"jsonContains", "jsonContained", "jsonEquals", "jsonHasKey"}

\* the operator tokens in the order of the operator table
OperatorOrder ==
    << "in", "notIn", "gte", "lte", "gt", "lt", "between", "notBetween",
       "contains", "notContains", "iContains", "notIContains", "startsWith",
       "notStartsWith", "endsWith", "notEndsWith", "regex", "notRegex", "regexi",
       "notRegexi", "equalTo", "notEqualTo", "jsonContains", "jsonContained",
       "jsonEquals", "jsonHasKey" >>

Position(token) == CHOOSE i \in 1..Len(OperatorOrder) : OperatorOrder[i] = token

\* the messages parseCondition raises for the operands of the operators
\* that precede `token` in the operator table: an operator's own error is
\* none of these
MessagesOfOthers(token) ==
    { parseCondition(call.conditionFor, call.fieldAlias, Op(ov[1], ov[2]),
                     call.uuid).message :
        ov \in
            { x \in OperatorTokens \X (Operands \ {Undefined, Null}) :
                /\ Position(x[1]) < Position(token)
                /\ parseCondition(call.conditionFor, call.fieldAlias, Op(x[1], x[2]),
                                  call.uuid).kind = "error" } }

\* the accept/reject decision of the other mode
OtherMode == IF call.conditionFor = "qb" THEN "find" ELSE "qb"

\* C8 (as claimed): an operand outside its operator's shape is rejected with
\* that operator's own error, an operand inside it is accepted, and both
\* modes decide alike.
C8_OperandShapeOwnError ==
    (result # Pending /\ ValidModeAndField /\ IsOperatorObject(call.condition)
        /\ OperatorOf(call.condition) \in { <<"$", o>> : o \in ShapedOperators }
        /\ ~IsNullish(OperandOf(call.condition))) =>
        LET token == OperatorOf(call.condition)[2]
            v == OperandOf(call.condition)
        IN /\ (result.kind = "error") = ~RequiredShape(token, v)
           /\ result.kind = "error" => result.message \notin MessagesOfOthers(token)
           /\ (result.kind = "error") =
                 (parseCondition(OtherMode, call.fieldAlias, call.condition,
                                 call.uuid).kind = "error")

\* C9 (as claimed): {$notEqualTo: v} compiles to `<field> <> :<p>` with
\* {<p>: v} in qb mode and to Not(Equal(v)) in find mode.
C9_NotEqualToOperator ==
    (result # Pending /\ ValidModeAndField /\ IsOperatorObject(call.condition)
        /\ OperatorOf(call.condition) = <<"$", "notEqualTo">>
        /\ IsScalar(OperandOf(call.condition))) =>
        IF call.conditionFor = "qb"
        THEN IsFragment(result, call.fieldAlias, " <> :", OperandOf(call.condition))
        ELSE result = Find(Not(Equal(OperandOf(call.condition))))

\* C10 (as claimed): {$jsonHasKey: v} fails for a non-string v in both modes
\* and yields `<field> ? :<p>_key` with {<p>_key: v} for a string v.
C10_JsonHasKeyNeedsString ==
    (result # Pending /\ ValidModeAndField /\ IsOperatorObject(call.condition)
        /\ OperatorOf(call.condition) = <<"$", "jsonHasKey">>
        /\ ~IsNullish(OperandOf(call.condition))) =>
        LET v == OperandOf(call.condition)
        IN IF v.t # "string"
           THEN result.kind = "error"
           ELSE call.conditionFor = "qb" =>
                    /\ IsFragment(result, call.fieldAlias, " ? :", v)
                    /\ result.query[Len(result.query)] = "_key"

----------------------------------------------------------------------------
(* Claims about applyWhereConditionsQB (SpecCompose) *)

IsLogicalKey(field) == field = <<"$", "and">> \/ field = <<"$", "or">>

\* a step that is a call of applyWhereConditionsQB ending as `status`
CallEnds(status) == ncalls' = ncalls + 1 /\ outcome'.status = status

\* the clauses a call added behind those the builder held
Added(old, new) == SubSeq(new.wheres, Len(old.wheres) + 1, Len(new.wheres))

\* the own keys of a group element
OwnKeys(v) == IF v.t = "object" THEN Len(v.entries) ELSE 0

RECURSIVE SumOwnKeys(_, _)
SumOwnKeys(items, i) ==
    IF i > Len(items) THEN 0 ELSE OwnKeys(items[i]) + SumOwnKeys(items, i + 1)

IsPrefix(s, t) == Len(s) <= Len(t) /\ SubSeq(t, 1, Len(s)) = s
IsSuffix(s, t) == Len(s) <= Len(t) /\ SubSeq(t, Len(t) - Len(s) + 1, Len(t)) = s

\* C2: a call that returns adds, for each own key in turn, one plain clause
\* (a field name) or one bracketed group (a $and/$or key) joined with the
\* call's join operator; the group holds the clauses of all elements of the
\* key's sequence, joined with AND for $and and OR for $or.
C2_OneClausePerKey ==
    [][CallEnds("returned") =>
        LET entries == outcome'.conditions.entries
            added == Added(qb, qb')
        IN /\ IsPrefix(qb.wheres, qb'.wheres)
           /\ Len(added) = Len(entries)
           /\ \A i \in 1..Len(entries) :
                /\ added[i].type = WhereType(outcome'.whereMethod)
                /\ IF IsLogicalKey(entries[i][1])
                   THEN /\ added[i].brackets
                        /\ Len(added[i].wheres) = SumOwnKeys(entries[i][2].items, 1)
                        /\ \A j \in 1..Len(added[i].wheres) :
                              added[i].wheres[j].type =
                                 (IF entries[i][1] = <<"$", "and">> THEN "and" ELSE "or")
                   ELSE /\ ~added[i].brackets
                        /\ IsPrefix(FieldAlias(outcome'.alias, entries[i][1]),
                                    added[i].query)]_vars

\* {name: 'John', $or: [{age: 30}, {age: 40}]} composed with AND on a fresh
\* builder: one plain entity.name clause and one bracket of two ORed
\* entity.age clauses
C2_Witness ==
    /\ outcome.status = "returned"
    /\ ncalls = 1
    /\ outcome.whereMethod = "andWhere"
    /\ outcome.conditions =
          Obj(<< Leaf("name", Str(<<"John">>)),
                 Or(<< Obj(<<Leaf("age", Num(30))>>), Obj(<<Leaf("age", Num(40))>>) >>) >>)
    /\ Len(qb.wheres) = 2
    /\ qb.wheres[1].type = "and" /\ ~qb.wheres[1].brackets
    /\ IsPrefix(<<"entity", ".", "name", " = :">>, qb.wheres[1].query)
    /\ qb.wheres[2].type = "and" /\ qb.wheres[2].brackets
    /\ Len(qb.wheres[2].wheres) = 2
    /\ \A j \in 1..2 :
          /\ qb.wheres[2].wheres[j].type = "or"
          /\ ~qb.wheres[2].wheres[j].brackets
          /\ IsPrefix(<<"entity", ".", "age", " = :">>, qb.wheres[2].wheres[j].query)

PrefixRun(k) ==
    applyWhereConditionsQB(qb, uuidCalls, outcome'.whereMethod,
                           Obj(SubSeq(outcome'.conditions.entries, 1, k)),
                           outcome'.alias)

C4_ParameterNamesDistinct ==
    /\ \A i, j \in 1..Len(qb.sets) : i # j => qb.sets[i] # qb.sets[j]
    /\ Len(qb.parameters) = Len(qb.sets)

\* the length of an id in tokens
IdLen == Len(ReplaceHyphens(Uuid(0)))

\* two leaves on the same field with the same operator were merged
C4_Witness ==
    /\ outcome.status = "returned"
    /\ \E i, j \in 1..Len(qb.sets) :
          /\ i < j
          /\ SubSeq(qb.sets[i], IdLen + 1, Len(qb.sets[i]))
                = SubSeq(qb.sets[j], IdLen + 1, Len(qb.sets[j]))
          /\ qb.parameters[i][2] # qb.parameters[j][2]

\* the first failure of a walk over the tree's keys in order: a leaf whose
\* parseCondition fails, or a $and/$or key whose value is no sequence
RECURSIVE FirstFailure(_, _, _)
RECURSIVE FirstFailureIn(_, _, _)
FirstFailure(entries, i, alias) ==
    IF i > Len(entries) THEN <<>>
    ELSE LET field == entries[i][1]
             c == entries[i][2]
         IN IF IsLogicalKey(field)
            THEN IF c.t # "array"
                 THEN << [leaf |-> FALSE, field |-> field, message |-> <<>>] >>
                 ELSE LET inner == FirstFailureIn(c.items, 1, alias)
                      IN IF Len(inner) > 0 THEN inner
                         ELSE FirstFailure(entries, i + 1, alias)
            ELSE LET r == parseCondition("qb", Str(FieldAlias(alias, field)), c, Uuid(0))
                 IN IF r.kind = "error"
                    THEN << [leaf |-> TRUE, field |-> field, message |-> r.message] >>
                    ELSE FirstFailure(entries, i + 1, alias)
FirstFailureIn(items, i, alias) ==
    IF i > Len(items) THEN <<>>
    ELSE LET here == FirstFailure(ForIn(items[i]), 1, alias)
         IN IF Len(here) > 0 THEN here ELSE FirstFailureIn(items, i + 1, alias)

----------------------------------------------------------------------------
(* Claims about the fragments of parseCondition (SpecParse) *)

\* the text of a token sequence
RECURSIVE Text(_)
Text(s) == IF s = <<>> THEN "" ELSE Head(s) \o Text(Tail(s))

\* s with every occurrence of the id replaced by a fixed token
RECURSIVE Mask(_, _)
Mask(s, id) ==
    IF Len(s) < Len(id) \/ Len(id) = 0 THEN s
    ELSE IF SubSeq(s, 1, Len(id)) = id
    THEN <<"<id>">> \o Mask(SubSeq(s, Len(id) + 1, Len(s)), id)
    ELSE <<Head(s)>> \o Mask(Tail(s), id)

\* a fragment's query and parameter names as text, with the id masked
MaskedQuery(r, uuid) == Text(Mask(r.query, ReplaceHyphens(uuid)))
MaskedNames(r, uuid) ==
    [i \in 1..Len(r.parameters) |-> Text(Mask(r.parameters[i][1], ReplaceHyphens(uuid)))]
Values(r) == [i \in 1..Len(r.parameters) |-> r.parameters[i][2]]

\* the id of the state's call, and an id of another call
CallId == ReplaceHyphens(call.uuid)
OtherUuid == Uuid(0)

\* a bare string (no sentinel), number or boolean literal
IsBareLiteral(v) == v.t \in {"string", "number", "boolean"} /\ ~IsSentinel(v)

\* the state's call made with {$equalTo: condition} instead, under another id
AsEqualTo ==
    parseCondition(call.conditionFor, call.fieldAlias, Op("equalTo", call.condition),
                   OtherUuid)

AsIn ==
    parseCondition(call.conditionFor, call.fieldAlias, Op("in", call.condition),
                   OtherUuid)

\* C12: a bare array xs of strings/numbers/Dates and {$in: xs} compile to the
\* same result: in qb mode `<field> IN (:...<id>_in_<field>)` with the one
\* parameter of that name bound to xs unchanged, in find mode In(xs).
C12_BareArraySameAsIn ==
    (result # Pending /\ ValidModeAndField /\ ArrayOfStringNumberDate(call.condition)) =>
        IF call.conditionFor = "qb"
        THEN LET f == Text(call.fieldAlias.s)
             IN /\ result.kind = "qb" /\ AsIn.kind = "qb"
                /\ MaskedQuery(result, call.uuid) = f \o " IN (:...<id>_in_" \o f \o ")"
                /\ MaskedQuery(AsIn, OtherUuid) = MaskedQuery(result, call.uuid)
                /\ MaskedNames(result, call.uuid) = <<"<id>_in_" \o f>>
                /\ MaskedNames(AsIn, OtherUuid) = MaskedNames(result, call.uuid)
                /\ Values(result) = <<call.condition>>
                /\ Values(AsIn) = <<call.condition>>
        ELSE result = Find(In(call.condition)) /\ AsIn = result

\* the bare array [1, 2, 3] was compiled in qb mode
C12_Witness ==
    /\ result.kind = "qb"
    /\ call.condition = Arr(<<Num(1), Num(2), Num(3)>>)
    /\ Values(result) = <<Arr(<<Num(1), Num(2), Num(3)>>)>>

----------------------------------------------------------------------------
(* What a fragment and a find operator select: SQL's three truth values
   ("T", "F", "U" for unknown) over a bounded set of field values; a row is
   selected when the predicate is "T" *)

Neg3(p) == CASE p = "T" -> "F" [] p = "F" -> "T" [] OTHER -> "U"
And3(p, q) ==
    IF p = "F" \/ q = "F" THEN "F" ELSE IF p = "T" /\ q = "T" THEN "T" ELSE "U"
Truth(b) == IF b THEN "T" ELSE "F"

\* the strings of the rows and operands, in collation (code point) order
StringOrder == <<"", "John", "Johnny", "a", "john", "xJohn">>
Rank(s) == CHOOSE i \in 1..Len(StringOrder) : StringOrder[i] = Text(s)

\* the sort key of a scalar
SortKey(v) ==
    CASE v.t = "number" -> v.n
      [] v.t = "date" -> v.d
      [] v.t = "boolean" -> IF v.b THEN 1 ELSE 0
      [] OTHER -> Rank(v.s)

\* two scalars of one type (anything else compares as unknown)
Comparable(x, v) ==
    /\ x.t = v.t
    /\ x.t \in {"number", "date", "boolean", "string"}
    /\ x.t = "string" =>
          \A w \in {x, v} : \E i \in 1..Len(StringOrder) : StringOrder[i] = Text(w.s)

Less(x, v) == IF Comparable(x, v) THEN Truth(SortKey(x) < SortKey(v)) ELSE "U"
LessOrEqual(x, v) == IF Comparable(x, v) THEN Truth(SortKey(x) <= SortKey(v)) ELSE "U"

\* x = v; a JSON document equals the text that JSON.stringify gives it
Equals(x, v) ==
    IF x.t \in {"array", "object"} /\ v.t = "string"
    THEN Truth(Text(JsonStringify(x)) = Text(v.s))
    ELSE IF Comparable(x, v) THEN Truth(SortKey(x) = SortKey(v)) ELSE "U"

\* x IN (items)
InList(x, items) ==
    IF \E i \in 1..Len(items) : Equals(x, items[i]) = "T" THEN "T"
    ELSE IF x.t = "null" \/ \E i \in 1..Len(items) : Equals(x, items[i]) = "U" THEN "U"
    ELSE "F"

\* x BETWEEN from AND to
InRange(x, from, to) == And3(LessOrEqual(from, x), LessOrEqual(x, to))

\* a token in lower case
Lower(token) ==
    CASE token = "John" -> "john"
      [] token = "JOHN" -> "john"
      [] OTHER -> token
LowerAll(s) == [i \in 1..Len(s) |-> Lower(s[i])]

\* s matches the pattern p, whose "%" tokens stand for any run of tokens
RECURSIVE LikeMatch(_, _)
LikeMatch(s, p) ==
    IF p = <<>> THEN s = <<>>
    ELSE IF Head(p) = "%"
    THEN LikeMatch(s, Tail(p)) \/ (s # <<>> /\ LikeMatch(Tail(s), p))
    ELSE s # <<>> /\ Head(s) = Head(p) /\ LikeMatch(Tail(s), Tail(p))

\* x LIKE pattern, x ILIKE pattern
Likes(x, pattern) ==
    IF x.t = "string" /\ pattern.t = "string"
    THEN Truth(LikeMatch(x.s, pattern.s)) ELSE "U"
ILikes(x, pattern) ==
    IF x.t = "string" /\ pattern.t = "string"
    THEN Truth(LikeMatch(LowerAll(x.s), LowerAll(pattern.s))) ELSE "U"

\* x ~ pattern, x ~* pattern, for patterns without metacharacters
Matches(x, pattern) ==
    IF x.t = "string" /\ pattern.t = "string"
    THEN Truth(LikeMatch(x.s, <<"%">> \o pattern.s \o <<"%">>)) ELSE "U"
IMatches(x, pattern) ==
    IF x.t = "string" /\ pattern.t = "string"
    THEN Truth(LikeMatch(LowerAll(x.s), <<"%">> \o LowerAll(pattern.s) \o <<"%">>))
    ELSE "U"

\* the JSON documents of the rows and operands
JsonDocuments ==
    { Num(1), Str(<<"a">>), Str(<<"invalid">>), Arr(<<>>), Arr(<<Num(1)>>),
      Arr(<<Num(1), Num(2), Num(3)>>), Arr(<<Num(1), Num(10)>>),
      Obj(<< <<<<"invalid">>, Str(<<"value">>)>> >>),
      Obj(<< <<<<"invalid">>, Str(<<"value">>)>>, <<<<"k">>, Num(1)>> >>),
      Obj(<< <<<<"John">>, Num(1)>> >>) }

\* the document x contains the document w at its top level
Contains(x, w) ==
    CASE x.t = "array" /\ w.t = "array" ->
            \A i \in 1..Len(w.items) : \E j \in 1..Len(x.items) : x.items[j] = w.items[i]
      [] x.t = "object" /\ w.t = "object" ->
            \A i \in 1..Len(w.entries) : \E j \in 1..Len(x.entries) :
                x.entries[j] = w.entries[i]
      [] x.t = "array" /\ w.t \in {"number", "string"} ->
            \E j \in 1..Len(x.items) : x.items[j] = w
      [] OTHER -> x = w

\* x @> text, x <@ text: the text read back as the document it was made from
JsonContains(x, text) ==
    IF x \in JsonDocuments /\ text.t = "string"
          /\ \E w \in JsonDocuments : Text(JsonStringify(w)) = Text(text.s)
    THEN Truth(\E w \in JsonDocuments :
                   Text(JsonStringify(w)) = Text(text.s) /\ Contains(x, w))
    ELSE "U"
JsonContained(x, text) ==
    IF x \in JsonDocuments /\ text.t = "string"
          /\ \E w \in JsonDocuments : Text(JsonStringify(w)) = Text(text.s)
    THEN Truth(\E w \in JsonDocuments :
                   Text(JsonStringify(w)) = Text(text.s) /\ Contains(w, x))
    ELSE "U"

\* x ? key
JsonHasKey(x, key) ==
    IF key.t # "string" THEN "U"
    ELSE CASE x.t = "object" ->
                 Truth(\E j \in 1..Len(x.entries) : Text(x.entries[j][1]) = Text(key.s))
           [] x.t = "array" ->
                 Truth(\E j \in 1..Len(x.items) :
                           x.items[j].t = "string" /\ Text(x.items[j].s) = Text(key.s))
           [] OTHER -> "U"

\* the value bound to a placeholder, and whether one is bound
IsBound(parameters, name) ==
    \E i \in 1..Len(parameters) : Text(parameters[i][1]) = Text(name)
Bound(parameters, name) ==
    parameters[CHOOSE i \in 1..Len(parameters) : Text(parameters[i][1]) = Text(name)][2]

\* the truth value of `<field> <operator> :<placeholder>...` for the field
\* value x ("E" when the text is no such predicate or a placeholder is unbound)
SqlEval(query, parameters, a, x) ==
    IF Len(query) < Len(a) + 2 \/ SubSeq(query, 1, Len(a)) # a THEN "E"
    ELSE LET rest == SubSeq(query, Len(a) + 2, Len(query))
             op == query[Len(a) + 1]
             list == SubSeq(rest, 1, Len(rest) - 1)
             Unary(Pred(_, _)) ==
                 IF IsBound(parameters, rest) THEN Pred(x, Bound(parameters, rest)) ELSE "E"
             Flipped(Pred(_, _)) ==
                 IF IsBound(parameters, rest) THEN Pred(Bound(parameters, rest), x) ELSE "E"
             Listed ==
                 IF rest # <<>> /\ rest[Len(rest)] = ")" /\ IsBound(parameters, list)
                       /\ Bound(parameters, list).t = "array"
                 THEN InList(x, Bound(parameters, list).items) ELSE "E"
             Ranged ==
                 IF \E k \in 1..Len(rest) : rest[k] = " AND :"
                 THEN LET k == CHOOSE k \in 1..Len(rest) : rest[k] = " AND :"
                          from == SubSeq(rest, 1, k - 1)
                          to == SubSeq(rest, k + 1, Len(rest))
                      IN IF IsBound(parameters, from) /\ IsBound(parameters, to)
                         THEN InRange(x, Bound(parameters, from), Bound(parameters, to))
                         ELSE "E"
                 ELSE "E"
         IN CASE op = " IN (:..." -> Listed
              [] op = " NOT IN (:..." -> Neg3(Listed)
              [] op = " >= :" -> Flipped(LessOrEqual)
              [] op = " <= :" -> Unary(LessOrEqual)
              [] op = " > :" -> Flipped(Less)
              [] op = " < :" -> Unary(Less)
              [] op = " BETWEEN :" -> Ranged
              [] op = " NOT BETWEEN :" -> Neg3(Ranged)
              [] op = " LIKE :" -> Unary(Likes)
              [] op = " NOT LIKE :" -> Neg3(Unary(Likes))
              [] op = " ILIKE :" -> Unary(ILikes)
              [] op = " NOT ILIKE :" -> Neg3(Unary(ILikes))
              [] op = " = :" -> Unary(Equals)
              [] op = " != :" -> Neg3(Unary(Equals))
              [] op = " ~ :" -> Unary(Matches)
              [] op = " !~ :" -> Neg3(Unary(Matches))
              [] op = " ~* :" -> Unary(IMatches)
              [] op = " !~* :" -> Neg3(Unary(IMatches))
              [] op = " @> :" -> Unary(JsonContains)
              [] op = " <@ :" -> Unary(JsonContained)
              [] op = " ? :" -> Unary(JsonHasKey)
              [] OTHER -> "E"

\* the truth value of a find operator on the field a for the field value x
RECURSIVE FindEval(_, _, _)
FindEval(op, a, x) ==
    CASE op.fop = "in" ->
            IF op.value.t = "array" THEN InList(x, op.value.items) ELSE "E"
      [] op.fop = "moreThanOrEqual" -> LessOrEqual(op.value, x)
      [] op.fop = "lessThanOrEqual" -> LessOrEqual(x, op.value)
      [] op.fop = "moreThan" -> Less(op.value, x)
      [] op.fop = "lessThan" -> Less(x, op.value)
      [] op.fop = "between" -> InRange(x, op.from, op.to)
      [] op.fop = "like" -> Likes(x, op.pattern)
      [] op.fop = "ilike" -> ILikes(x, op.pattern)
      [] op.fop = "equal" -> Equals(x, op.value)
      [] op.fop = "isNull" -> Truth(x.t = "null")
      [] op.fop = "not" -> Neg3(FindEval(op.child, a, x))
      [] op.fop = "raw" -> SqlEval(a \o op.sql, op.parameters, a, x)
      [] OTHER -> "E"

\* the field values the predicates are evaluated over
FieldValues ==
    { Null, Bool(TRUE), Bool(FALSE) }
    \cup { Num(n) : n \in {0, 1, 2, 5, 10, 11, 29, 30, 31} }
    \cup { DateV(d) : d \in 0..3 }
    \cup { Str(<<>>), Str(<<"John">>), Str(<<"john">>), Str(<<"John", "ny">>),
           Str(<<"x", "John">>), Str(<<"a">>) }
    \cup JsonDocuments

\* the field values a fragment, and a find operator, select
SelectedByFragment(r, a) ==
    { x \in FieldValues : SqlEval(r.query, r.parameters, Interp(a), x) = "T" }
SelectedByFind(r, a) == { x \in FieldValues : FindEval(r.op, Interp(a), x) = "T" }
IllFormed(r, a) ==
    \E x \in FieldValues :
        IF r.kind = "qb" THEN SqlEval(r.query, r.parameters, Interp(a), x) = "E"
        ELSE FindEval(r.op, Interp(a), x) = "E"

\* the state's call made in the other mode
InOtherMode ==
    parseCondition(OtherMode, call.fieldAlias, call.condition, call.uuid)
TheFragment == IF call.conditionFor = "qb" THEN result ELSE InOtherMode
TheFindOperator == IF call.conditionFor = "find" THEN result ELSE InOtherMode

\* a known operator with an operand it accepted
OperatorAccepted ==
    /\ result # Pending /\ ValidModeAndField
    /\ IsOperatorObject(call.condition)
    /\ OperatorOf(call.condition) \in KnownOperators
    /\ result.kind # "error"

----------------------------------------------------------------------------
(* Parameter names *)

\* a fragment with parameters was produced
FragmentWithParameters == result # Pending /\ result.kind = "qb" /\ result.hasParameters

\* the parameter names of the result, as text
NameTexts == [i \in 1..Len(result.parameters) |-> Text(result.parameters[i][1])]

\* the groups of hexadecimal digits of an id
HexGroups == {"9b1deb4d", "3b7d"} \cup { ToString(n) : n \in 0..9 }

\* the first tokens of every name are the call's one id, made of groups of
\* lowercase hexadecimal digits and underscores
NamesShareId ==
    \A i \in 1..Len(result.parameters) :
        LET name == result.parameters[i][1]
        IN /\ Len(name) > Len(call.uuid)
           /\ SubSeq(name, 1, Len(call.uuid)) = CallId
           /\ \A k \in 1..Len(call.uuid) : name[k] \in HexGroups \cup {"_"}

NameSuffixes == {"", "_start", "_end", "_key"}

NamePart ==
    IF IsKeyValueObject(call.condition)
    THEN CHOOSE token \in OperatorTokens : OperatorOf(call.condition) = <<"$", token>>
    ELSE IF call.condition.t = "array" THEN "in" ELSE "eq"

\* the suffixes of the state's call, in the order of its parameters
SuffixesOfCall ==
    IF ~IsKeyValueObject(call.condition) THEN <<"">>
    ELSE CASE NamePart \in {"between", "notBetween"} -> <<"_start", "_end">>
           [] NamePart = "jsonHasKey" -> <<"_key">>
           [] OTHER -> <<"">>

EqualToOnUserName ==
    /\ FragmentWithParameters
    /\ call.fieldAlias = Str(<<"user", ".", "name">>)
    /\ IsOperatorObject(call.condition)
    /\ OperatorOf(call.condition) = <<"$", "equalTo">>

\* C15 (as claimed): {$equalTo: v} on user.name returns the query
\* `user.name = :_eq_user_name` with the parameter _eq_user_name bound to v,
\* without an id, so a second call returns an equal result.
C15_EqualToNameWithoutId ==
    EqualToOnUserName =>
        /\ Text(result.query) = "user.name = :_eq_user_name"
        /\ NameTexts = <<"_eq_user_name">>
        /\ Values(result) = <<OperandOf(call.condition)>>
        /\ parseCondition(call.conditionFor, call.fieldAlias, call.condition, OtherUuid)
             = result

\* C16 (as claimed): {$notIn: v} with v not an array of strings, numbers or
\* Dates fails with $NOTIN_OPERATOR_MUST_HAVE_AN_ARRAY_OF_STRINGS_OR_NUMBERS.
C16_NotInOwnMessage ==
    (result # Pending /\ ValidModeAndField /\ IsOperatorObject(call.condition)
        /\ OperatorOf(call.condition) = <<"$", "notIn">>
        /\ ~IsNullish(OperandOf(call.condition))
        /\ ~ArrayOfStringNumberDate(OperandOf(call.condition))) =>
        /\ result.kind = "error"
        /\ Text(result.message) = "$NOTIN_OPERATOR_MUST_HAVE_AN_ARRAY_OF_STRINGS_OR_NUMBERS"

----------------------------------------------------------------------------
(* Ranges, sentinels and patterns *)

\* the state's call is {$<token>: v}, made with a valid mode and field
CallIs(token) ==
    /\ result # Pending /\ ValidModeAndField
    /\ IsOperatorObject(call.condition)
    /\ OperatorOf(call.condition) = <<"$", token>>

\* a pair of strings, numbers or Dates
IsRangePair(v) == ArrayOfStringNumberDate(v) /\ Len(v.items) = 2

\* the state's result is the range fragment or operator for [a, b]
IsRange(token, sql, negated) ==
    LET v == OperandOf(call.condition)
        f == Text(call.fieldAlias.s)
        p == Text(CallId) \o "_" \o token \o "_" \o f
    IN IF call.conditionFor = "qb"
       THEN /\ result.kind = "qb" /\ result.hasParameters
            /\ Text(result.query) = f \o sql \o p \o "_start AND :" \o p \o "_end"
            /\ NameTexts = <<p \o "_start", p \o "_end">>
            /\ Values(result) = <<v.items[1], v.items[2]>>
       ELSE result = Find(IF negated THEN Not(Between(v.items[1], v.items[2]))
                          ELSE Between(v.items[1], v.items[2]))

\* C17: {$between: [a, b]} and {$notBetween: [a, b]} give in qb mode
\* `<field> [NOT] BETWEEN :<p>_start AND :<p>_end` with exactly the two
\* parameters <p>_start = a and <p>_end = b, in that order whatever a and b
\* are, and in find mode Between(a, b) or Not(Between(a, b)).
C17_RangeBounds ==
    /\ (CallIs("between") /\ IsRangePair(OperandOf(call.condition))) =>
           IsRange("between", " BETWEEN :", FALSE)
    /\ (CallIs("notBetween") /\ IsRangePair(OperandOf(call.condition))) =>
           IsRange("notBetween", " NOT BETWEEN :", TRUE)

\* {$between: [10, 1]} was compiled in qb mode with _start = 10 and _end = 1
C17_Witness ==
    /\ CallIs("between")
    /\ call.conditionFor = "qb"
    /\ OperandOf(call.condition) = Arr(<<Num(10), Num(1)>>)
    /\ result.kind = "qb"
    /\ Values(result) = <<Num(10), Num(1)>>

\* the state's result is the null check of the field, without parameters
IsNullCheck(sql, op) ==
    IF call.conditionFor = "qb"
    THEN /\ result.kind = "qb"
         /\ Text(result.query) = Text(call.fieldAlias.s) \o sql
         /\ ~result.hasParameters
         /\ result.parameters = <<>>
    ELSE result = Find(op)

\* C18: the bare string "$isNull" gives `<field> IS NULL` without parameters
\* in qb mode and IsNull() in find mode, "$isNotNull" gives
\* `<field> IS NOT NULL` without parameters and Not(IsNull()); neither is
\* compiled as an equality with the string.
C18_SentinelsAreNullChecks ==
    (result # Pending /\ ValidModeAndField) =>
        /\ call.condition = Str(<<"$", "isNull">>) => IsNullCheck(" IS NULL", IsNull)
        /\ call.condition = Str(<<"$", "isNotNull">>) =>
              IsNullCheck(" IS NOT NULL", Not(IsNull))
        /\ IsSentinel(call.condition) =>
              /\ result # Find(Equal(call.condition))
              /\ result.kind = "qb" => \A i \in 1..Len(result.query) : result.query[i] # " = :"

\* "$isNotNull" was compiled in qb mode on user.name
C18_Witness ==
    /\ result # Pending /\ ValidModeAndField
    /\ call.conditionFor = "qb"
    /\ call.condition = Str(<<"$", "isNotNull">>)
    /\ call.fieldAlias = Str(<<"user", ".", "name">>)
    /\ Text(result.query) = "user.name IS NOT NULL"

\* the substring operators
SubstringOperators ==
    { "contains", "notContains", "iContains", "notIContains",
      "startsWith", "notStartsWith", "endsWith", "notEndsWith" }

\* the pattern an operator makes of the text s
PatternOf(token, s) ==
    CASE token \in {"contains", "notContains", "iContains", "notIContains"} ->
            "%" \o s \o "%"
      [] token \in {"startsWith", "notStartsWith"} -> s \o "%"
      [] OTHER -> "%" \o s

\* the SQL operator of a substring operator
SqlOf(token) ==
    CASE token = "iContains" -> " ILIKE :"
      [] token = "notIContains" -> " NOT ILIKE :"
      [] token \in {"notContains", "notStartsWith", "notEndsWith"} -> " NOT LIKE :"
      [] OTHER -> " LIKE :"

IsNegated(token) ==
    token \in {"notContains", "notIContains", "notStartsWith", "notEndsWith"}
IsCaseInsensitive(token) == token \in {"iContains", "notIContains"}

\* the find operator is Like or ILike of the pattern, under Not when negated
IsPatternOperator(op, token, pattern) ==
    LET inner == IF IsNegated(token) THEN op.child ELSE op
    IN /\ IsNegated(token) <=> op.fop = "not"
       /\ inner.fop = (IF IsCaseInsensitive(token) THEN "ilike" ELSE "like")
       /\ inner.pattern.t = "string"
       /\ Text(inner.pattern.s) = pattern

\* C19: a substring operator with the string operand s binds %s% ($contains,
\* $iContains and their not-forms), s% ($startsWith, $notStartsWith) or %s
\* ($endsWith, $notEndsWith) to its one parameter; the query is
\* `<field> LIKE|NOT LIKE|ILIKE|NOT ILIKE :<p>` without a wildcard; find mode
\* gives Like or ILike of the same pattern, under Not for the not-forms.
C19_SubstringPatterns ==
    \A token \in SubstringOperators :
        (CallIs(token) /\ OperandOf(call.condition).t = "string") =>
            LET f == Text(call.fieldAlias.s)
                name == Text(CallId) \o "_" \o token \o "_" \o f
                pattern == PatternOf(token, Text(OperandOf(call.condition).s))
            IN IF call.conditionFor = "qb"
               THEN /\ result.kind = "qb" /\ result.hasParameters
                    /\ Text(result.query) = f \o SqlOf(token) \o name
                    /\ NameTexts = <<name>>
                    /\ Values(result)[1].t = "string"
                    /\ Text(Values(result)[1].s) = pattern
               ELSE /\ result.kind = "find"
                    /\ IsPatternOperator(result.op, token, pattern)

\* {$notEndsWith: 'John'} was compiled in find mode to Not(Like('%John'))
C19_Witness ==
    /\ CallIs("notEndsWith")
    /\ call.conditionFor = "find"
    /\ OperandOf(call.condition) = Str(<<"John">>)
    /\ result = Find(Not(Like(Str(<<"%", "John">>))))

----------------------------------------------------------------------------
(* The order of the clauses of applyWhereConditionsQB (SpecCompose) *)

\* the leaves <<field, condition>> of a filter tree: the keys in their order,
\* a group's elements in the order of its sequence
RECURSIVE LeavesOfEntries(_, _)
RECURSIVE LeavesOfItems(_, _)
LeavesOfEntries(entries, i) ==
    IF i > Len(entries) THEN <<>>
    ELSE (IF IsLogicalKey(entries[i][1])
          THEN LeavesOfItems(entries[i][2].items, 1)
          ELSE <<entries[i]>>)
         \o LeavesOfEntries(entries, i + 1)
LeavesOfItems(items, i) ==
    IF i > Len(items) THEN <<>>
    ELSE LeavesOfEntries(ForIn(items[i]), 1) \o LeavesOfItems(items, i + 1)

\* the plain clauses of a list of clauses, a bracket's clauses in its place
RECURSIVE PlainClauses(_, _)
PlainClauses(wheres, i) ==
    IF i > Len(wheres) THEN <<>>
    ELSE (IF wheres[i].brackets THEN PlainClauses(wheres[i].wheres, 1)
          ELSE <<wheres[i].query>>)
         \o PlainClauses(wheres, i + 1)

\* C20: a call that returns leaves, behind the clauses the builder held, the
\* clauses of the tree's leaves in the order of the keys, a group's leaves in
\* the order of its elements and of each element's keys: the i-th clause is
\* the fragment of the i-th leaf, compiled with the call's i-th id.
C20_ClausesInKeyOrder ==
    [][CallEnds("returned") =>
        LET leaves == LeavesOfEntries(ForIn(outcome'.conditions), 1)
            clauses == PlainClauses(Added(qb, qb'), 1)
        IN /\ IsPrefix(qb.wheres, qb'.wheres)
           /\ Len(clauses) = Len(leaves)
           /\ \A i \in 1..Len(leaves) :
                 clauses[i] =
                    parseCondition("qb", Str(FieldAlias(outcome'.alias, leaves[i][1])),
                                   leaves[i][2], Uuid(uuidCalls + i)).query]_vars

\* {$or: [{a: 1, b: 2}, {c: 3}]} was composed: the group holds the clauses of
\* a, b and c in this order
C20_Witness ==
    /\ outcome.status = "returned"
    /\ outcome.conditions =
          Obj(<< Or(<< Obj(<<Leaf("a", Num(1)), Leaf("b", Num(2))>>),
                       Obj(<<Leaf("c", Num(3))>>) >>) >>)
    /\ qb.wheres # <<>>
    /\ LET group == qb.wheres[Len(qb.wheres)]
       IN /\ group.brackets
          /\ Len(group.wheres) = 3
          /\ IsPrefix(<<"entity", ".", "a">>, group.wheres[1].query)
          /\ IsPrefix(<<"entity", ".", "b">>, group.wheres[2].query)
          /\ IsPrefix(<<"entity", ".", "c">>, group.wheres[3].query)

----------------------------------------------------------------------------
(* Field references of applyWhereConditionsQB (SpecCompose) *)

\* the number of dots of a key
RECURSIVE Dots(_)
Dots(field) ==
    IF field = <<>> THEN 0 ELSE (IF Head(field) = "." THEN 1 ELSE 0) + Dots(Tail(field))

\* what parseCondition writes behind the field reference of a clause
SqlTokens ==
    { " IN (:...", " NOT IN (:...", " >= :", " <= :", " > :", " < :", " BETWEEN :",
      " NOT BETWEEN :", " LIKE :", " NOT LIKE :", " ILIKE :", " NOT ILIKE :", " = :",
      " != :", " ~ :", " !~ :", " ~* :", " !~* :", " @> :", " <@ :", " ? :",
      " IS NULL", " IS NOT NULL" }

\* the clause is written on the field reference `reference`
IsClauseOn(clause, reference) ==
    \E n \in 1..(Len(clause) - 1) :
        /\ Text(SubSeq(clause, 1, n)) = reference
        /\ clause[n + 1] \in SqlTokens

\* C21: in a call that returns, the clause of a key without a dot is written
\* on `<baseAlias>.<key>` and the clause of a key `relation.field` on
\* `relation.field`, without the base alias.
C21_FieldReference ==
    [][CallEnds("returned") =>
        LET leaves == LeavesOfEntries(ForIn(outcome'.conditions), 1)
            clauses == PlainClauses(Added(qb, qb'), 1)
        IN /\ Len(clauses) = Len(leaves)
           /\ \A i \in 1..Len(leaves) :
                 /\ Dots(leaves[i][1]) = 0 =>
                       IsClauseOn(clauses[i],
                                  Text(outcome'.alias) \o "." \o Text(leaves[i][1]))
                 /\ Dots(leaves[i][1]) = 1 =>
                       /\ IsClauseOn(clauses[i], Text(leaves[i][1]))
                       /\ \A k \in 1..Len(clauses[i]) :
                             clauses[i][k] # Text(outcome'.alias)]_vars

\* {'user.name': {$in: [1, 2]}} was composed on the base alias entity into a
\* clause on user.name
C21_Witness ==
    /\ outcome.status = "returned"
    /\ outcome.conditions =
          Obj(<< <<<<"user", ".", "name">>, Op("in", Arr(<<Num(1), Num(2)>>))>> >>)
    /\ outcome.alias = <<"entity">>
    /\ qb.wheres # <<>>
    /\ IsClauseOn(qb.wheres[Len(qb.wheres)].query, "user.name")

----------------------------------------------------------------------------
(* applySortOrderQB *)

\* a SelectQueryBuilder created with an alias: its clauses, its parameters
\* and the addOrderBy calls made on it
SelectQueryBuilder(alias) ==
    [wheres |-> <<>>, parameters |-> <<>>, sets |-> <<>>, alias |-> alias,
     orderBys |-> <<>>]

\* the order with only the listed descending forms mapped to DESC
SortOrderOf_DescendingListed(value) ==
    IF value = Str(<<"descend">>) \/ value = Str(<<"desc">>)
          \/ value = Str(<<"descending">>) \/ value = Num(-1)
    THEN "DESC" ELSE "ASC"

\* value === 'ascend' || value === 'asc' || value === 'ascending' || value === 1
\*    ? 'ASC' : 'DESC'
SortOrderOf(value) ==
    IF value = Str(<<"ascend">>) \/ value = Str(<<"asc">>)
          \/ value = Str(<<"ascending">>) \/ value = Num(1)
    THEN "ASC" ELSE "DESC"

\* let fieldAlias = `${queryBuilder.alias}.${key}`; if (key.includes('.')) { ... }
SortFieldAlias(alias, key) ==
    IF IncludesDot(key)
    THEN LET parts == Split(key, 1, <<>>)
         IN Segment(parts, 1) \o <<".">> \o Segment(parts, 2)
    ELSE alias \o <<".">> \o key

\* queryBuilder.addOrderBy(fieldAlias, order)
AddOrderBy(b, sort, order) == [b EXCEPT !.orderBys = Append(@, <<sort, order>>)]

\* Object.entries(sort).forEach(([key, value]) => ...) from the i-th entry on
RECURSIVE SortEntries(_, _, _)
SortEntries(b, entries, i) ==
    IF i > Len(entries) THEN b
    ELSE SortEntries(AddOrderBy(b, SortFieldAlias(b.alias, entries[i][1]),
                                SortOrderOf(entries[i][2])),
                     entries, i + 1)

\* applySortOrderQB(queryBuilder, sort)
applySortOrderQB(queryBuilder, sort) == SortEntries(queryBuilder, sort.entries, 1)

\* sort mappings: every SortOrder value, values outside the type, dotted keys
SortMappings ==
    { Obj(<<>>),
      Obj(<< Leaf("name", Str(<<"asc">>)) >>),
      Obj(<< Leaf("name", Str(<<"ascend">>)), Leaf("age", Str(<<"descend">>)) >>),
      Obj(<< Leaf("age", Num(1)), Leaf("name", Num(-1)) >>),
      Obj(<< Leaf("name", Str(<<"ascending">>)),
             <<<<"user", ".", "name">>, Str(<<"desc">>)>> >>),
      Obj(<< Leaf("name", Str(<<"descending">>)) >>),
      Obj(<< Leaf("name", Str(<<"ASC">>)) >>),
      Obj(<< Leaf("age", Str(<<"1">>)), Leaf("name", Num(0)) >>),
      Obj(<< Leaf("name", Undefined), Leaf("age", Bool(TRUE)) >>),
      Obj(<< <<<<"profile", ".", "age">>, Num(1)>>, Leaf("name", Str(<<"asc">>)) >>),
      Obj(<< <<<<"a", ".", "b", ".", "c">>, Str(<<"asc">>)>> >>),
      Obj(<< <<<<"a", ".", "b">>, Str(<<"asc">>)>>,
             <<<<"a", ".", "b", ".", "c", ".", "d">>, Str(<<"desc">>)>> >>) }

\* filter trees with dotted keys
DottedTrees ==
    { Obj(<< <<<<"user", ".", "name">>, Op("in", Arr(<<Num(1), Num(2)>>))>> >>),
      Obj(<< <<<<"a", ".", "b", ".", "c">>, Num(1)>> >>),
      Obj(<< Leaf("age", Num(30)),
             Or(<< Obj(<< <<<<"a", ".", "b", ".", "c", ".", "d">>, Str(<<"x">>)>> >>),
                   Obj(<< <<<<"a", ".", "b">>, Op("gte", Num(1))>> >>) >>) >>) }

BuilderAliases == { <<"entity">>, <<"user">> }

\* a builder that is sorted and filtered, up to MaxCalls times
InitSort ==
    /\ call = NoCall
    /\ result = Pending
    /\ qb \in { SelectQueryBuilder(alias) : alias \in BuilderAliases }
    /\ outcome = NoOutcome
    /\ uuidCalls = 0
    /\ ncalls = 0

ApplySortOrderQB(sort) ==
    /\ ncalls < MaxCalls
    /\ qb' = applySortOrderQB(qb, sort)
    /\ outcome' = [status |-> "sorted", sort |-> sort]
    /\ ncalls' = ncalls + 1
    /\ UNCHANGED <<call, result, uuidCalls>>

NextSort ==
    \/ \E sort \in SortMappings : ApplySortOrderQB(sort)
    \/ \E whereMethod \in WhereMethods, conditions \in DottedTrees :
          ApplyWhereConditionsQB(whereMethod, conditions, qb.alias)

SpecSort == InitSort /\ [][NextSort]_vars

\* a step that is a call of applySortOrderQB
SortEnds == ncalls' = ncalls + 1 /\ outcome'.status = "sorted"

\* the addOrderBy calls a step made
Ordered == SubSeq(qb'.orderBys, Len(qb.orderBys) + 1, Len(qb'.orderBys))

AscendingValues == { Str(<<"ascend">>), Str(<<"asc">>), Str(<<"ascending">>), Num(1) }

----------------------------------------------------------------------------
(* The field reference in find mode, and the id (SpecParse) *)

\* the operators whose find-mode result is one of typeorm's operator values
NativeOperators ==
    { "in", "notIn", "gte", "lte", "gt", "lt", "between", "notBetween",
      "contains", "notContains", "iContains", "notIContains", "startsWith",
      "notStartsWith", "endsWith", "notEndsWith", "equalTo", "notEqualTo" }

\* C23: in find mode no call fails with ALIAS_MUST_BE_A_NON_EMPTY_STRING,
\* whatever the field reference is, and for an operator with a native
\* operator value (and for a bare condition) every other field reference
\* gives the same result.
C23_FindIgnoresFieldAlias ==
    (result # Pending /\ call.conditionFor = "find") =>
        /\ result.kind = "error" =>
              Text(result.message) # "ALIAS_MUST_BE_A_NON_EMPTY_STRING"
        /\ (\/ ~IsKeyValueObject(call.condition)
            \/ /\ IsOperatorObject(call.condition)
               /\ OperatorOf(call.condition) \in { <<"$", o>> : o \in NativeOperators }) =>
              \A a \in FieldAliases :
                  parseCondition("find", a, call.condition, call.uuid) = result

\* {$in: [1, 2, 3]} was compiled in find mode without a field reference
C23_Witness ==
    /\ call.conditionFor = "find"
    /\ call.fieldAlias = Undefined
    /\ call.condition = Op("in", Arr(<<Num(1), Num(2), Num(3)>>))
    /\ result = Find(In(Arr(<<Num(1), Num(2), Num(3)>>)))

\* the state's call made with another id
WithOtherId ==
    parseCondition(call.conditionFor, call.fieldAlias, call.condition, OtherUuid)

\* the names of r start with the id made of uuid
NamesStartWith(r, uuid) ==
    \A i \in 1..Len(r.parameters) :
        IsPrefix(ReplaceHyphens(uuid), r.parameters[i][1])

\* two find operators that are equal once their ids are masked
SameOperator(op, uuid, other, otherUuid) ==
    IF op.fop = "raw" /\ other.fop = "raw"
    THEN /\ Text(Mask(op.sql, ReplaceHyphens(uuid)))
              = Text(Mask(other.sql, ReplaceHyphens(otherUuid)))
         /\ MaskedNames(op, uuid) = MaskedNames(other, otherUuid)
         /\ Values(op) = Values(other)
    ELSE op = other

\* C24: the same call made with two different ids has the same outcome (the
\* same error, or success in both); in qb mode the queries are equal once the
\* id is masked, the parameters are as many, have equal values and names
\* that start with the call's id and are equal once it is masked.
C24_IdIndependence ==
    (result # Pending /\ call.uuid # OtherUuid) =>
        /\ WithOtherId.kind = result.kind
        /\ result.kind = "error" => WithOtherId = result
        /\ result.kind = "find" =>
              SameOperator(result.op, call.uuid, WithOtherId.op, OtherUuid)
        /\ result.kind = "qb" =>
              /\ MaskedQuery(result, call.uuid) = MaskedQuery(WithOtherId, OtherUuid)
              /\ Len(result.parameters) = Len(WithOtherId.parameters)
              /\ result.hasParameters = WithOtherId.hasParameters
              /\ MaskedNames(result, call.uuid) = MaskedNames(WithOtherId, OtherUuid)
              /\ Values(result) = Values(WithOtherId)
              /\ NamesStartWith(result, call.uuid)
              /\ NamesStartWith(WithOtherId, OtherUuid)

\* {$between: [1, 10]} was compiled in qb mode with an id other than the
\* second call's: the two queries differ and are equal once masked
C24_Witness ==
    /\ result # Pending /\ result.kind = "qb"
    /\ call.condition = Op("between", Arr(<<Num(1), Num(10)>>))
    /\ call.uuid # OtherUuid
    /\ result.query # WithOtherId.query
    /\ MaskedQuery(result, call.uuid) = MaskedQuery(WithOtherId, OtherUuid)

----------------------------------------------------------------------------
(* Termination of applyWhereConditionsQB (SpecCompose) *)

Max(m, n) == IF m >= n THEN m ELSE n

\* the deepest nested activation of applyWhereConditionsQB a call reaches:
\* the for-in loop of an activation at `level` from its i-th entry on, and
\* the forEach of a group whose callback runs at `level`
RECURSIVE DepthOfConditions(_, _, _, _, _, _, _)
RECURSIVE DepthOfNested(_, _, _, _, _, _, _)
DepthOfConditions(b, uuids, whereMethod, entries, i, alias, level) ==
    IF i > Len(entries) THEN level
    ELSE LET field == entries[i][1]
             c == entries[i][2]
             r == ApplyField(b, uuids, whereMethod, field, c, alias)
             here == IF (field = <<"$", "and">> \/ field = <<"$", "or">>) /\ IsArray(c)
                     THEN DepthOfNested([b EXCEPT !.wheres = <<>>], uuids,
                                        IF field = <<"$", "and">> THEN "andWhere"
                                        ELSE "orWhere",
                                        c.items, 1, alias, level)
                     ELSE level
         IN IF r.thrown THEN here
            ELSE Max(here, DepthOfConditions(r.b, r.uuids, whereMethod, entries, i + 1,
                                             alias, level))
DepthOfNested(b, uuids, whereMethod, items, i, alias, level) ==
    IF i > Len(items) THEN level
    ELSE LET r == ApplyConditions(b, uuids, whereMethod, ForIn(items[i]), 1, alias)
             here == DepthOfConditions(b, uuids, whereMethod, ForIn(items[i]), 1, alias,
                                       level + 1)
         IN IF r.thrown THEN here
            ELSE Max(here, DepthOfNested(r.b, r.uuids, whereMethod, items, i + 1, alias,
                                         level))

\* the recursion depth of applyWhereConditionsQB(b, whereMethod, conditions, alias)
RecursionDepth(b, uuids, whereMethod, conditions, alias) ==
    DepthOfConditions(b, uuids, whereMethod, ForIn(conditions), 1, alias, 0)

\* the leaves of a tree, and how deep its groups' elements are nested
RECURSIVE CountLeaves(_, _)
RECURSIVE CountLeavesIn(_, _)
CountLeaves(entries, i) ==
    IF i > Len(entries) THEN 0
    ELSE (IF IsLogicalKey(entries[i][1])
          THEN (IF entries[i][2].t = "array" THEN CountLeavesIn(entries[i][2].items, 1)
                ELSE 0)
          ELSE 1)
         + CountLeaves(entries, i + 1)
CountLeavesIn(items, i) ==
    IF i > Len(items) THEN 0
    ELSE CountLeaves(ForIn(items[i]), 1) + CountLeavesIn(items, i + 1)

RECURSIVE NestingDepth(_, _)
RECURSIVE NestingDepthIn(_, _)
NestingDepth(entries, i) ==
    IF i > Len(entries) THEN 0
    ELSE Max(IF IsLogicalKey(entries[i][1]) /\ entries[i][2].t = "array"
             THEN NestingDepthIn(entries[i][2].items, 1) ELSE 0,
             NestingDepth(entries, i + 1))
NestingDepthIn(items, i) ==
    IF i > Len(items) THEN 0
    ELSE Max(1 + NestingDepth(ForIn(items[i]), 1), NestingDepthIn(items, i + 1))

\* a step that is a call of applyWhereConditionsQB
CallStep == ncalls' = ncalls + 1 /\ outcome'.status \in {"returned", "threw"}

\* the calls of parseCondition a step made (each takes one id)
ParseCalls == uuidCalls' - uuidCalls

DepthOfStep ==
    RecursionDepth(qb, uuidCalls, outcome'.whereMethod, outcome'.conditions,
                   outcome'.alias)
LeavesOfStep == CountLeaves(ForIn(outcome'.conditions), 1)
NestingOfStep == NestingDepth(ForIn(outcome'.conditions), 1)

\* C25 (as claimed): every call returns or raises after at most one
\* parseCondition call per leaf, exactly one per leaf when it returns, and
\* its recursion depth equals the nesting depth of the tree's groups.
C25_DepthEqualsNesting ==
    [][CallStep =>
        /\ ParseCalls <= LeavesOfStep
        /\ outcome'.status = "returned" => ParseCalls = LeavesOfStep
        /\ DepthOfStep = NestingOfStep]_vars

\* C25 (amended): every call returns or raises after at most one
\* parseCondition call per leaf, exactly one per leaf when it returns; its
\* recursion depth never exceeds the nesting depth of the tree's groups and
\* equals it when the call returns.
C25_DepthWithinNesting ==
    [][CallStep =>
        /\ ParseCalls <= LeavesOfStep
        /\ outcome'.status = "returned" => ParseCalls = LeavesOfStep
        /\ DepthOfStep <= NestingOfStep
        /\ outcome'.status = "returned" => DepthOfStep = NestingOfStep]_vars

\* {x: 1, $or: [{x: 2}, {$and: [{y: {$gte: true}}]}]} raised at its third
\* leaf, two groups deep, after three parseCondition calls
C25_Witness ==
    /\ outcome.status = "threw"
    /\ ncalls = 1
    /\ uuidCalls = 3
    /\ outcome.conditions =
          Obj(<< Leaf("x", Num(1)),
                 Or(<< Obj(<<Leaf("x", Num(2))>>),
                       Obj(<< And(<< Obj(<<Leaf("y", Op("gte", Bool(TRUE)))>>) >>) >>) >>) >>)
    /\ RecursionDepth(EmptyBuilder, 0, outcome.whereMethod, outcome.conditions,
                      outcome.alias) = 2

----------------------------------------------------------------------------
(* Placeholders and parameters (SpecParse) *)

\* the tokens that open an array placeholder `:...name`, a placeholder
\* `:name`, and the token that closes a list
ArrayOpeners == { " IN (:...", " NOT IN (:..." }
ScalarOpeners ==
    (SqlTokens \ (ArrayOpeners \cup {" IS NULL", " IS NOT NULL"})) \cup {" AND :"}
Closers == { ")" }

\* the index behind the placeholder name that starts at i
RECURSIVE NameEnd(_, _)
NameEnd(query, i) ==
    IF i > Len(query) \/ query[i] \in ArrayOpeners \cup ScalarOpeners \cup Closers
    THEN i ELSE NameEnd(query, i + 1)

\* the placeholders of a query from its i-th token on, in order
RECURSIVE Placeholders(_, _)
Placeholders(query, i) ==
    IF i > Len(query) THEN <<>>
    ELSE IF query[i] \in ArrayOpeners \cup ScalarOpeners
    THEN << [array |-> query[i] \in ArrayOpeners,
             name |-> Text(SubSeq(query, i + 1, NameEnd(query, i + 1) - 1))] >>
         \o Placeholders(query, NameEnd(query, i + 1))
    ELSE Placeholders(query, i + 1)

\* the state's condition is $in, $notIn or a bare array
IsListCondition ==
    \/ call.condition.t = "array"
    \/ /\ IsOperatorObject(call.condition)
       /\ OperatorOf(call.condition) \in { <<"$", "in">>, <<"$", "notIn">> }

----------------------------------------------------------------------------
(* The shape of groups and the errors of nested leaves (SpecCompose) *)

\* the join types and brackets of a list of clauses, without their queries
RECURSIVE ShapeOfWheres(_)
ShapeOfWheres(wheres) ==
    [i \in 1..Len(wheres) |->
        IF wheres[i].brackets
        THEN [type |-> wheres[i].type, leaf |-> FALSE,
              group |-> ShapeOfWheres(wheres[i].wheres)]
        ELSE [type |-> wheres[i].type, leaf |-> TRUE, group |-> <<>>]]

\* the shape a tree calls for when the elements of a group are not told
\* apart: every key of every element joins its group with the group's
\* operator, and only a $and/$or key opens a bracket
RECURSIVE ShapeOfEntries(_, _, _)
RECURSIVE ShapeOfItems(_, _, _)
ShapeOfEntries(entries, i, type) ==
    IF i > Len(entries) THEN <<>>
    ELSE << IF IsLogicalKey(entries[i][1])
            THEN [type |-> type, leaf |-> FALSE,
                  group |-> ShapeOfItems(entries[i][2].items, 1,
                                         IF entries[i][1] = <<"$", "and">> THEN "and"
                                         ELSE "or")]
            ELSE [type |-> type, leaf |-> TRUE, group |-> <<>>] >>
         \o ShapeOfEntries(entries, i + 1, type)
ShapeOfItems(items, i, type) ==
    IF i > Len(items) THEN <<>>
    ELSE ShapeOfEntries(ForIn(items[i]), 1, type) \o ShapeOfItems(items, i + 1, type)

\* C27: in a call that returns, every leaf of every element of a $and/$or
\* sequence, all keys of a multi-key element included, is joined into the
\* group's one bracket with the group's inner operator; only a nested
\* $and/$or key opens a further bracket.
C27_ElementsFlattened ==
    [][CallEnds("returned") =>
        ShapeOfWheres(Added(qb, qb'))
           = ShapeOfEntries(ForIn(outcome'.conditions), 1,
                            WhereType(outcome'.whereMethod))]_vars

\* {$or: [{a: 1, b: 2}, {c: 3}]} was composed into one bracket of three
\* plain clauses, each joined with OR
C27_Witness ==
    /\ outcome.status = "returned"
    /\ ncalls = 1
    /\ outcome.conditions =
          Obj(<< Or(<< Obj(<<Leaf("a", Num(1)), Leaf("b", Num(2))>>),
                       Obj(<<Leaf("c", Num(3))>>) >>) >>)
    /\ ShapeOfWheres(qb.wheres)
         = << [type |-> WhereType(outcome.whereMethod), leaf |-> FALSE,
               group |-> << [type |-> "or", leaf |-> TRUE, group |-> <<>>],
                            [type |-> "or", leaf |-> TRUE, group |-> <<>>],
                            [type |-> "or", leaf |-> TRUE, group |-> <<>>] >>] >>

\* the first failure of a walk over the tree's keys in order, with the keys
\* that lead to it from the outermost one: a leaf whose parseCondition fails
\* (with its message), or a $and/$or key whose value is no sequence
RECURSIVE FailurePath(_, _, _)
RECURSIVE FailurePathIn(_, _, _)
FailurePath(entries, i, alias) ==
    IF i > Len(entries) THEN <<>>
    ELSE LET field == entries[i][1]
             c == entries[i][2]
         IN IF IsLogicalKey(field)
            THEN IF c.t # "array"
                 THEN << [leaf |-> FALSE, path |-> <<field>>, message |-> <<>>] >>
                 ELSE LET inner == FailurePathIn(c.items, 1, alias)
                      IN IF Len(inner) > 0
                         THEN << [inner[1] EXCEPT !.path = <<field>> \o @] >>
                         ELSE FailurePath(entries, i + 1, alias)
            ELSE LET r == parseCondition("qb", Str(FieldAlias(alias, field)), c, Uuid(0))
                 IN IF r.kind = "error"
                    THEN << [leaf |-> TRUE, path |-> <<field>>, message |-> r.message] >>
                    ELSE FailurePath(entries, i + 1, alias)
FailurePathIn(items, i, alias) ==
    IF i > Len(items) THEN <<>>
    ELSE LET here == FailurePath(ForIn(items[i]), 1, alias)
         IN IF Len(here) > 0 THEN here ELSE FailurePathIn(items, i + 1, alias)

\* `Error parsing condition for field "<key>": ` for each key of a path
RECURSIVE Wraps(_, _)
Wraps(path, i) ==
    IF i > Len(path) THEN <<>>
    ELSE <<"Error parsing condition for field ", "\"">> \o path[i] \o <<"\"", ": ">>
         \o Wraps(path, i + 1)

\* how often a token occurs in a message
RECURSIVE Occurrences(_, _)
Occurrences(message, token) ==
    IF message = <<>> THEN 0
    ELSE (IF Head(message) = token THEN 1 ELSE 0) + Occurrences(Tail(message), token)

\* C28: a call that raises for a leaf under k groups raises an error whose
\* message is the original message behind k+1 prefixes
\* `Error parsing condition for field "<key>": `, those of the enclosing
\* $and/$or keys from the outermost one and the leaf's own last; a $and/$or
\* key whose value is no sequence is wrapped in the same way.
C28_WrappedPerLevel ==
    [][CallEnds("threw") =>
        LET f == FailurePath(ForIn(outcome'.conditions), 1, outcome'.alias)
            message == outcome'.error.message
        IN /\ Len(f) = 1
           /\ outcome'.error.name = "TypeORM_QUERY_CONDITION_PARSING_ERROR"
           /\ Occurrences(message, "Error parsing condition for field ") = Len(f[1].path)
           /\ IsPrefix(Wraps(f[1].path, 1), message)
           /\ Len(message) > Len(Wraps(f[1].path, 1))
           /\ f[1].leaf => Text(message) = Text(Wraps(f[1].path, 1) \o f[1].message)]_vars

\* {x: 1, $or: [{x: 2}, {$and: [{y: {$gte: true}}]}]} raised for y, two
\* groups deep, with three prefixes
C28_Witness ==
    /\ outcome.status = "threw"
    /\ Occurrences(outcome.error.message, "Error parsing condition for field ") = 3
    /\ IsPrefix(Wraps(<< <<"$", "or">>, <<"$", "and">>, <<"y">> >>, 1),
                outcome.error.message)

----------------------------------------------------------------------------
(* applyWhereConditionQB and applyFiltersQB *)

\* the single-field helper with the composer's handling of a dotted key
applyWhereConditionQB_DottedKey(b, uuids, alias, field, condition, whereMethod) ==
    LET r == parseCondition("qb", Str(FieldAlias(alias, field)), condition,
                            Uuid(uuids + 1))
    IN IF r.kind = "error"
       THEN Thrown(b, uuids + 1, NativeError("Error", r.message))
       ELSE Returned(AddWhere(b, whereMethod, r), uuids + 1)

\* applyWhereConditionQB: the condition compiled against `${alias}.${field}`
\* and attached with whereMethod; an error of parseCondition is not caught
applyWhereConditionQB(b, uuids, alias, field, condition, whereMethod) ==
    LET r == parseCondition("qb", Str(alias \o <<".">> \o field), condition,
                            Uuid(uuids + 1))
    IN IF r.kind = "error"
       THEN Thrown(b, uuids + 1, NativeError("Error", r.message))
       ELSE Returned(AddWhere(b, whereMethod, r), uuids + 1)

\* Object.keys(filter).forEach: the keys in order, ended by the first error
RECURSIVE FilterEntries(_, _, _, _, _)
FilterEntries(b, uuids, alias, entries, i) ==
    IF i > Len(entries) THEN Returned(b, uuids)
    ELSE LET r == applyWhereConditionQB(b, uuids, alias, entries[i][1],
                                        entries[i][2], "andWhere")
         IN IF r.thrown THEN r
            ELSE FilterEntries(r.b, r.uuids, alias, entries, i + 1)

applyFiltersQB(queryBuilder, uuids, alias, filter) ==
    FilterEntries(queryBuilder, uuids, alias, filter.entries, 1)

\* the filters applied
Filters ==
    { Obj(<<>>),
      Obj(<< Leaf("age", Num(30)) >>),
      Obj(<< Leaf("name", Str(<<"John">>)), Leaf("age", Op("gte", Num(18))) >>),
      Obj(<< Leaf("status", Str(<<"a">>)),
             Or(<< Obj(<<Leaf("age", Num(30))>>), Obj(<<Leaf("age", Num(40))>>) >>) >>),
      Obj(<< And(<< Obj(<<Leaf("a", Num(1))>>) >>) >>),
      Obj(<< <<<<"user", ".", "name">>, Str(<<"x">>)>> >>),
      Obj(<< <<<<"a", ".", "b", ".", "c">>, Op("in", Arr(<<Num(1), Num(2)>>))>> >>),
      Obj(<< Leaf("name", Str(<<"John">>)), Leaf("age", Obj(<<>>)) >>),
      Obj(<< Or(<<>>) >>),
      Obj(<< Leaf("age", Null) >>),
      Obj(<< Leaf("tags", Arr(<<Str(<<"a">>), Str(<<"b">>)>>)), Leaf("born", DateV(1)) >>),
      Obj(<< Leaf("x", Str(<<"$", "isNull">>)) >>),
      Obj(<< <<<<"$", "or">>, Num(5)>>, Leaf("age", Op("foo", Num(1))) >>) }

InitFilters ==
    /\ call = NoCall
    /\ result = Pending
    /\ qb = EmptyBuilder
    /\ outcome = NoOutcome
    /\ uuidCalls = 0
    /\ ncalls = 0

ApplyFiltersQB(alias, filter) ==
    /\ ncalls < MaxCalls
    /\ LET r == applyFiltersQB(qb, uuidCalls, alias, filter)
       IN /\ qb' = r.b
          /\ uuidCalls' = r.uuids
          /\ outcome' = IF r.thrown
                        THEN [status |-> "threw", alias |-> alias, filter |-> filter,
                              error |-> r.error]
                        ELSE [status |-> "returned", alias |-> alias, filter |-> filter]
    /\ ncalls' = ncalls + 1
    /\ UNCHANGED <<call, result>>

NextFilters ==
    \E alias \in BaseAliases, filter \in Filters : ApplyFiltersQB(alias, filter)

SpecFilters == InitFilters /\ [][NextFilters]_vars

\* the keys of a filter whose condition does not compile against <alias>.<key>
FailingKeys(alias, entries) ==
    { i \in 1..Len(entries) :
        parseCondition("qb", Str(alias \o <<".">> \o entries[i][1]), entries[i][2],
                       OtherUuid).kind = "error" }

\* the number of keys before the first failing one
KeysBeforeFailure(alias, entries) ==
    IF FailingKeys(alias, entries) = {} THEN Len(entries)
    ELSE (CHOOSE i \in FailingKeys(alias, entries) :
             \A j \in FailingKeys(alias, entries) : i <= j) - 1

\* a non-empty sequence of objects
IsSubFilters(v) ==
    /\ v.t = "array"
    /\ Len(v.items) > 0
    /\ \A k \in 1..Len(v.items) : v.items[k].t = "object"

\* C29: applyFiltersQB attaches, for every top-level key k in order, the
\* condition compiled against <alias>.<k> as an unbracketed AND clause, a
\* dotted key and $and/$or included; it stops at the first key that does not
\* compile with parseCondition's own error (no
\* `Error parsing condition for field` prefix), the clauses of the earlier
\* keys staying attached; $and/$or given a sequence of sub-filters fails so
\* with INVALID_CONDITION.
C29_FiltersKeyByKey ==
    [][ncalls' = ncalls + 1 =>
        LET entries == outcome'.filter.entries
            alias == outcome'.alias
            n == KeysBeforeFailure(alias, entries)
            added == Added(qb, qb')
        IN /\ Len(added) = n
           /\ \A i \in 1..n :
                 /\ added[i].type = "and"
                 /\ ~added[i].brackets
                 /\ IsClauseOn(added[i].query,
                               Text(alias) \o "." \o Text(entries[i][1]))
                 /\ Text(Mask(added[i].query, ReplaceHyphens(Uuid(uuidCalls + i))))
                       = MaskedQuery(parseCondition("qb",
                                        Str(alias \o <<".">> \o entries[i][1]),
                                        entries[i][2], OtherUuid), OtherUuid)
           /\ (n = Len(entries)) <=> (outcome'.status = "returned")
           /\ n < Len(entries) =>
                 /\ outcome'.status = "threw"
                 /\ ~outcome'.error.own
                 /\ outcome'.error.name = "Error"
                 /\ Text(outcome'.error.message)
                       = Text(parseCondition("qb",
                                 Str(alias \o <<".">> \o entries[n + 1][1]),
                                 entries[n + 1][2], OtherUuid).message)
                 /\ Occurrences(outcome'.error.message,
                                "Error parsing condition for field ") = 0
                 /\ (IsLogicalKey(entries[n + 1][1]) /\ IsSubFilters(entries[n + 1][2]))
                       => Text(outcome'.error.message) = "INVALID_CONDITION"
           /\ \A i \in 1..Len(entries) :
                 (IsLogicalKey(entries[i][1]) /\ IsSubFilters(entries[i][2])) => n < i]_vars

\* {status: 'a', $or: [{age: 30}, {age: 40}]} raised INVALID_CONDITION
\* unwrapped, with the clause on entity.status attached
C29_Witness ==
    /\ outcome.status = "threw"
    /\ outcome.filter =
          Obj(<< Leaf("status", Str(<<"a">>)),
                 Or(<< Obj(<<Leaf("age", Num(30))>>), Obj(<<Leaf("age", Num(40))>>) >>) >>)
    /\ Text(outcome.error.message) = "INVALID_CONDITION"
    /\ ~outcome.error.own
    /\ Len(qb.wheres) > 0
    /\ qb.wheres[Len(qb.wheres)].type = "and"
    /\ IsClauseOn(qb.wheres[Len(qb.wheres)].query, "entity.status")

\* the part of a key before its second dot
RECURSIVE UpToSecondDot(_, _)
UpToSecondDot(key, dots) ==
    IF key = <<>> THEN <<>>
    ELSE IF Head(key) = "." /\ dots = 1 THEN <<>>
    ELSE <<Head(key)>>
         \o UpToSecondDot(Tail(key), IF Head(key) = "." THEN dots + 1 ELSE dots)

\* a tree whose groups are sequences and whose leaves' conditions compile
TreeCompiles(conditions) ==
    /\ FailurePath(ForIn(conditions), 1, <<"entity">>) = <<>>

\* C30: for a key with at least one dot, applySortOrderQB orders by, and
\* applyWhereConditionsQB compares, the part of the key before its second
\* dot (the key itself when it has one dot, `a.b` for `a.b.c`); the further
\* segments cause no error: the sort call adds one ordering per key and the
\* composer returns for every tree whose conditions compile.
C30_FirstTwoSegments ==
    [][/\ SortEnds =>
            LET entries == outcome'.sort.entries
            IN /\ Len(Ordered) = Len(entries)
               /\ \A i \in 1..Len(entries) :
                     /\ Dots(entries[i][1]) >= 1 =>
                           Text(Ordered[i][1]) = Text(UpToSecondDot(entries[i][1], 0))
                     /\ Dots(entries[i][1]) = 1 =>
                           Text(Ordered[i][1]) = Text(entries[i][1])
       /\ (ncalls' = ncalls + 1 /\ outcome'.status \in {"returned", "threw"}) =>
            /\ TreeCompiles(outcome'.conditions) => outcome'.status = "returned"
            /\ outcome'.status = "returned" =>
                 LET leaves == LeavesOfEntries(ForIn(outcome'.conditions), 1)
                     clauses == PlainClauses(Added(qb, qb'), 1)
                 IN /\ Len(clauses) = Len(leaves)
                    /\ \A i \in 1..Len(leaves) :
                          /\ Dots(leaves[i][1]) >= 1 =>
                                IsClauseOn(clauses[i],
                                           Text(UpToSecondDot(leaves[i][1], 0)))
                          /\ Dots(leaves[i][1]) = 1 =>
                                IsClauseOn(clauses[i], Text(leaves[i][1]))]_vars

\* {'a.b.c': 1} was composed after {'a.b': 'asc', 'a.b.c.d': 'desc'} was
\* applied: two orderings by a.b and a clause on a.b
C30_Witness ==
    /\ outcome.status = "returned"
    /\ outcome.conditions = Obj(<< <<<<"a", ".", "b", ".", "c">>, Num(1)>> >>)
    /\ Len(qb.wheres) = 1
    /\ IsClauseOn(qb.wheres[1].query, "a.b")
    /\ Len(qb.orderBys) = 2
    /\ Text(qb.orderBys[1][1]) = "a.b"
    /\ Text(qb.orderBys[2][1]) = "a.b"
    /\ qb.orderBys[2][2] = "DESC"

====
